---- MODULE Spec2Model ----
(***************************************************************************)
(* A model of clang-uml's package-diagram translation-unit visitor         *)
(* (src/package_diagram/visitor/translation_unit_visitor.cc) and of the    *)
(* helpers of src/common/visitor/clang_utils.cc it relies on.              *)
(*                                                                         *)
(* Strings are sequences of one-character strings, so that replace_all,    *)
(* split and the hash work on what the program works on.                   *)
(***************************************************************************)
EXTENDS Integers, Sequences, FiniteSets, TLC

VARIABLES
    config,        \* the diagram's filter: [include, exclude] namespace lists
    ndebug,        \* TRUE when the build defines NDEBUG (assert() compiled out)
    packages,      \* diagram_: the packages of the package diagram
    visited,       \* namespace declarations the traversal has visited so far
    refs,          \* history: <<A, B>> once a declaration directly in A used a type of B
    last,          \* history: the last visit, what it was given and what it did
    aborted,       \* "" or the assert() that ended the process
    steps,         \* the number of declarations visited
    call,          \* a helper function called alone: its name, input and output
    m_model,       \* the sequence diagram model: its sequences, by USR
    pc,            \* where the sequence generator's generate() is
    stack,         \* the generate_activity calls in progress, innermost last
    ostr,          \* the lines the sequence generator has written
    m_config,      \* the sequence diagram's configuration: its start_from list
    sf,            \* the start_from entry generate() comes to next
    previous       \* history: what an earlier generate() on this model wrote

vars == <<config, ndebug, packages, visited, refs, last, aborted, steps, call,
          m_model, pc, stack, ostr, m_config, sf, previous>>

\* no earlier generate()
NotWritten == [written |-> FALSE, lines |-> <<>>]

\* a sequence generator that is not run
NoSequences == [sequences |-> <<>>]
GeneratorIdle ==
    /\ m_model = NoSequences
    /\ pc = "idle"
    /\ stack = <<>>
    /\ ostr = <<>>
    /\ m_config = [start_from |-> <<>>]
    /\ sf = 1
    /\ previous = NotWritten

(***************************************************************************)
(* Bounds of the model                                                     *)
(***************************************************************************)
\* the traversal visits at most MaxVisits declarations
MaxVisits == 3
\* a type has at most WrapDepth pointer, reference and array wrappers
WrapDepth == 2
\* a namespace handed to a helper alone is nested at most NsDepth deep
NsDepth == 3
\* the template arguments of a specialization
MaxArgs == 2
\* the length of the template argument strings parsed, a few longer ones aside
MaxParamLen == 4
\* the length of the strings tokenized, a few longer ones aside
MaxTokenLen == 4
\* the number of -v flags on the command line
MaxVerbose == 3

(***************************************************************************)
(* Strings                                                                 *)
(***************************************************************************)
Letters == <<"a","b","c","d","e","f","g","h","i","j","k","l","m",
             "n","o","p","q","r","s","t","u","v","w","x","y","z">>

\* the character code of a one-character string (ASCII)
Code(c) ==
    CASE c = ":" -> 58
      [] c = "(" -> 40
      [] c = ")" -> 41
      [] c = " " -> 32
      [] OTHER   -> 96 + (CHOOSE i \in 1..26 : Letters[i] = c)

\* what clang prints for an anonymous namespace in a qualified name
AnonymousNamespace ==
    <<"(","a","n","o","n","y","m","o","u","s"," ",
      "n","a","m","e","s","p","a","c","e",")">>

ColonColon == <<":", ":">>

\* pattern occurs in s at position i (1-based)
MatchAt(s, pattern, i) ==
    /\ i + Len(pattern) - 1 <= Len(s)
    /\ \A k \in 1..Len(pattern) : s[i + k - 1] = pattern[k]

\* std::string::find(pattern, from): the first position >= from, 0 for npos
RECURSIVE Find(_, _, _)
Find(s, pattern, from) ==
    IF from + Len(pattern) - 1 > Len(s) THEN 0
    ELSE IF MatchAt(s, pattern, from) THEN from
    ELSE Find(s, pattern, from + 1)

\* util::replace_all: every occurrence found scanning left to right is
\* replaced, and the scan resumes after the text just inserted
RECURSIVE ReplaceFrom(_, _, _, _)
ReplaceFrom(s, pattern, with, from) ==
    LET pos == Find(s, pattern, from) IN
    IF pos = 0 THEN s
    ELSE ReplaceFrom(SubSeq(s, 1, pos - 1) \o with
                        \o SubSeq(s, pos + Len(pattern), Len(s)),
                     pattern, with, pos + Len(with))

replace_all(s, pattern, with) == ReplaceFrom(s, pattern, with, 1)

\* util::split(str, delimiter): the tokens between the delimiters, the empty
\* ones included; a string without the delimiter is its own single token
RECURSIVE SplitRest(_, _)
SplitRest(s, delimiter) ==
    IF Len(s) = 0 THEN <<>>
    ELSE LET pos == Find(s, delimiter, 1) IN
         IF pos = 0 THEN <<s>>
         ELSE <<SubSeq(s, 1, pos - 1)>>
                 \o SplitRest(SubSeq(s, pos + Len(delimiter), Len(s)), delimiter)

split(s, delimiter) ==
    IF Find(s, delimiter, 1) = 0 THEN <<s>> ELSE SplitRest(s, delimiter)

\* fmt::join(tokens, "::")
RECURSIVE Join(_)
Join(tokens) ==
    IF Len(tokens) = 0 THEN <<>>
    ELSE IF Len(tokens) = 1 THEN tokens[1]
    ELSE tokens[1] \o ColonColon \o Join(Tail(tokens))

(***************************************************************************)
(* Identity: 64-bit hash values are four 16-bit limbs, lowest first        *)
(***************************************************************************)
Zero64 == <<0, 0, 0, 0>>

\* h * 31 + c modulo 2^64
MulAdd(h, c) ==
    LET t1 == h[1] * 31 + c
        t2 == h[2] * 31 + (t1 \div 65536)
        t3 == h[3] * 31 + (t2 \div 65536)
        t4 == h[4] * 31 + (t3 \div 65536)
    IN  <<t1 % 65536, t2 % 65536, t3 % 65536, t4 % 65536>>

\* the seed of the hash, 0xc70f6907 (the seed libstdc++ hashes strings with)
HashSeed == <<26887, 50959, 0, 0>>

\* std::hash<std::string>: a deterministic 64-bit hash of the characters
\* (the standard library's function is unspecified; a seeded polynomial
\* hash stands for it)
\* the characters s[lo..hi] are fed to the hash state h from left to right;
\* the range is halved and the state after the left half (a 64-bit value, four
\* limbs) is computed before the right half is fed, which keeps the
\* evaluation shallow
RECURSIVE HashRange(_, _, _, _)
HashRange(h, s, lo, hi) ==
    IF lo > hi THEN h
    ELSE IF lo = hi THEN MulAdd(h, Code(s[lo]))
    ELSE LET mid == (lo + hi) \div 2
             left == HashRange(h, s, lo, mid)
         IN  CASE Len(left) = 4 -> HashRange(left, s, mid + 1, hi)

H64(s) == HashRange(HashSeed, s, 1, Len(s))

\* h >> 1 on a 64-bit value
Shr1(h) ==
    [i \in 1..4 |-> (h[i] \div 2) + (IF i < 4 THEN (h[i + 1] % 2) * 32768 ELSE 0)]

RECURSIVE Shr(_, _)
Shr(h, n) == IF n = 0 THEN h ELSE Shr(Shr1(h), n - 1)

\* the number of bits both to_id functions shift the hash right by
IdShift == 3

\* common::to_id(const std::string &)
to_id_NoShift(full_name) == H64(full_name)

to_id(full_name) == Shr(H64(full_name), IdShift)

\* id < 2^61 as a 64-bit value: the top three bits are clear
Below2Pow61(id) == id[4] < 8192

\* a small number as a 64-bit value
Id64(n) == <<n, 0, 0, 0>>

(***************************************************************************)
(* The declarations the front end hands to the visitor                     *)
(***************************************************************************)
\* a namespace is the sequence of its enclosing namespaces and itself,
\* outermost first; each is named, anonymous or inline
Named(name)  == [name |-> name, kind |-> "named"]
Inline(name) == [name |-> name, kind |-> "inline"]
Anonymous    == [name |-> <<>>, kind |-> "anonymous"]

isAnonymousNamespace(ns) == ns[Len(ns)].kind = "anonymous"
isInline(ns)             == ns[Len(ns)].kind = "inline"

\* NamedDecl::getNameAsString() of one namespace
getNameAsString(c) == IF c.kind = "anonymous" THEN AnonymousNamespace ELSE c.name

\* NamedDecl::getQualifiedNameAsString() of a namespace
getQualifiedNameAsString(ns) == Join([i \in 1..Len(ns) |-> getNameAsString(ns[i])])

\* the names of the namespaces of ns that are not anonymous, outermost first
NamedTokens(ns) ==
    LET RECURSIVE keep(_)
        keep(i) == IF i > Len(ns) THEN <<>>
                   ELSE IF ns[i].kind # "anonymous" THEN <<ns[i].name>> \o keep(i + 1)
                   ELSE keep(i + 1)
    IN  keep(1)

Parent(ns) == SubSeq(ns, 1, Len(ns) - 1)

\* the global scope: the translation unit, which is no namespace
GlobalScope == <<>>

\* the namespaces of the translation units the visitor is run on
nA      == <<"a">>
nB      == <<"b">>
nC      == <<"c">>
nH      == <<"h">>
nV      == <<"v">>
nDetail == <<"d", "e", "t", "a", "i", "l">>
nStd    == <<"s", "t", "d">>

A          == <<Named(nA)>>
AB         == <<Named(nA), Named(nB)>>
\* a::c is chosen to have the id of a::b: their hashes differ in the low bits
AC         == <<Named(nA), Named(nC)>>
ADetail    == <<Named(nA), Named(nDetail)>>
AV         == <<Named(nA), Inline(nV)>>
Std        == <<Named(nStd)>>
Anon       == <<Anonymous>>
AnonH      == <<Anonymous, Named(nH)>>
NsPaths == {A, AB, AC, ADetail, AV, Std, Anon, AnonH}

\* to_id(const clang::NamespaceDecl *) of the package visitor
to_id_ns(ns) ==
    LET qualified_name ==
            replace_all(replace_all(getQualifiedNameAsString(ns),
                                    AnonymousNamespace, <<>>),
                        <<":", ":", ":", ":">>, ColonColon)
    IN  Shr(H64(qualified_name), IdShift)

\* to_id_ns of every namespace of the model, computed once
NamespaceIds == [ns \in NsPaths |-> to_id_ns(ns)]

\* a tag declaration (class, struct, enum) and its chain of parents,
\* innermost first: records, then namespaces, then the translation unit
RecordContext    == [kind |-> "record"]
NamespaceContext(c) == [kind |-> "namespace", decl |-> c]
TranslationUnit  == [kind |-> "translation_unit"]

ParentChain(ns, records) ==
    [i \in 1..records |-> RecordContext]
        \o [i \in 1..Len(ns) |-> NamespaceContext(ns[Len(ns) + 1 - i])]
        \o <<TranslationUnit>>

\* lines 53-55: walk up to the nearest namespace; Len(chain) + 1 is nullptr
RECURSIVE NearestNamespace(_, _)
NearestNamespace(chain, i) ==
    IF i <= Len(chain) /\ chain[i].kind # "namespace"
    THEN NearestNamespace(chain, i + 1) ELSE i

\* lines 58-67: the names pushed to the front while walking up
RECURSIVE NamespaceTokens(_, _, _)
NamespaceTokens(chain, i, namespace_tokens) ==
    IF i <= Len(chain) /\ chain[i].kind = "namespace"
    THEN NamespaceTokens(chain, i + 1,
            IF chain[i].decl.kind # "inline" /\ chain[i].decl.kind # "anonymous"
            THEN <<getNameAsString(chain[i].decl)>> \o namespace_tokens
            ELSE namespace_tokens)
    ELSE namespace_tokens

\* get_tag_namespace
get_tag_namespace(chain) ==
    NamespaceTokens(chain, NearestNamespace(chain, 1), <<>>)

(***************************************************************************)
(* common::model: namespace_, package, the diagram and its filter          *)
(***************************************************************************)
\* namespace_{std::string}: the tokens between the "::"; no token for ""
namespace_(qualified_name) ==
    IF Len(qualified_name) = 0 THEN <<>> ELSE split(qualified_name, ColonColon)

IsPrefix(prefix, tokens) ==
    /\ Len(prefix) <= Len(tokens)
    /\ \A i \in 1..Len(prefix) : tokens[i] = prefix[i]

\* the namespace filter on a sequence of name tokens: some include entry is
\* a prefix of it (or there is none), and no exclude entry is
FilterAdmits(cfg, tokens) ==
    /\ \/ cfg.include = {}
       \/ \E inc \in cfg.include : IsPrefix(inc, tokens)
    /\ \A exc \in cfg.exclude : ~IsPrefix(exc, tokens)

\* the filters: none, and the one of test case t30001 (include a, exclude
\* a::detail)
Configs ==
    { [include |-> {}, exclude |-> {}],
      [include |-> {<<nA>>}, exclude |-> {<<nA, nDetail>>}] }

\* element::full_name(false): the namespace tokens followed by the name
FullNameTokens(p) == p.ns \o <<p.name>>

\* diagram::should_include(const package &)
should_include_package(cfg, p) == FilterAdmits(cfg, FullNameTokens(p))

\* diagram::should_include(const std::string &)
should_include_name(cfg, name) == FilterAdmits(cfg, namespace_(name))

\* diagram::get(id): the packages with that id (none or one)
get(pkgs, id) == {p \in pkgs : p.id = id}

\* decorated_element::skip(): the comment carries a skip decorator
SkipComment == <<"s", "k", "i", "p">>
DocComment  == <<"d", "o", "c">>
skip(p) == p.comment = SkipComment

\* package::add_relationship: the relationships of an element are a set
add_relationship(p, r) == [p EXCEPT !.relationships = @ \cup {r}]

(***************************************************************************)
(* clang::QualType, as far as find_relationships looks at it               *)
(***************************************************************************)
Void             == [k |-> "void"]
Builtin          == [k |-> "builtin"]
Pointer(t)       == [k |-> "pointer", to |-> t]
LValueRef(t)     == [k |-> "lvalue_reference", to |-> t]
RValueRef(t)     == [k |-> "rvalue_reference", to |-> t]
Array(t)         == [k |-> "array", to |-> t]
\* an enum declared in namespace ns whose declaration has Decl::getID() = id
Enum(ns, id)     == [k |-> "enum", ns |-> ns, id |-> id]
\* a class or struct whose nearest enclosing namespace is ns (GlobalScope
\* when it has none)
Record(ns)       == [k |-> "record", ns |-> ns]
FunctionProto(params) == [k |-> "function_proto", params |-> params]
\* a template specialization type with its template arguments
TemplateSpec(args) == [k |-> "template_specialization", args |-> args]
\* an alias template specialization (isTypeAlias()): its template arguments
\* as written and the type it is an alias of
AliasTemplateSpec(args, aliased) ==
    [k |-> "template_alias", args |-> args, aliased |-> aliased]
TypeArg(t)  == [kind |-> "Type", type |-> t]
OtherArg(kind) == [kind |-> kind]

\* the type under the sugar: isVoidType(), isPointerType(), ... and
\* getPointeeType(), getNonReferenceType() look through an alias
RECURSIVE Canonical(_)
Canonical(t) == IF t.k = "template_alias" THEN Canonical(t.aliased) ELSE t

isVoidType(t)        == Canonical(t).k = "void"
isVoidPointerType(t) ==
    Canonical(t).k = "pointer" /\ Canonical(Canonical(t).to).k = "void"

\* type->getAs<clang::TemplateSpecializationType>(), followed through a
\* type alias as lines 342-345 do: the arguments looked at, or <<>>
SpecializationArgs(t) ==
    IF t.k = "template_specialization" THEN t.args
    ELSE IF t.aliased.k \in {"template_specialization", "template_alias"}
         THEN t.aliased.args
    ELSE <<>>

\* lines 397-402: the enclosing namespace context is a namespace and the
\* filter admits its qualified name
RecordAdmitted(cfg, ns) ==
    /\ ns # GlobalScope
    /\ should_include_name(cfg, getQualifiedNameAsString(ns))

\* RecordAdmitted for every filter and namespace of the model, computed once
AdmittedNamespaces ==
    [cfg \in Configs |-> {ns \in NsPaths : RecordAdmitted(cfg, ns)}]

\* find_relationships: the entries <<id, hint>> it appends to relationships
RECURSIVE find_relationships(_, _, _)
RECURSIVE FindInArguments(_, _, _, _)
RECURSIVE FindInParams(_, _, _)

\* line 381: the hint given for the parameter types of a function prototype
ProtoParamHint == "dependency"

FindInParams(cfg, params, i) ==
    IF i > Len(params) THEN <<>>
    ELSE find_relationships(cfg, params[i], ProtoParamHint)
            \o FindInParams(cfg, params, i + 1)

FindInArguments(cfg, args, i, relationship_hint) ==
    IF i > Len(args) THEN <<>>
    ELSE LET a == args[i]
             here ==
               IF a.kind \in {"Integral", "Null", "Expression", "NullPtr",
                              "Template", "TemplateExpansion"}
                    THEN <<>>
               ELSE IF a.type.k = "function_proto"
                    THEN FindInParams(cfg, a.type.params, 1)
               ELSE find_relationships(cfg, a.type, relationship_hint)
         IN  here \o FindInArguments(cfg, args, i + 1, relationship_hint)

\* the hint lines 315-333 pass on for the type a wrapper type wraps
WrapperHint_RValueAsLValue(k) ==
    CASE k = "pointer"          -> "association"
      [] k = "rvalue_reference" -> "association"
      [] k = "lvalue_reference" -> "association"
      [] k = "array"            -> "aggregation"

WrapperHint(k) ==
    CASE k = "pointer"          -> "association"
      [] k = "rvalue_reference" -> "aggregation"
      [] k = "lvalue_reference" -> "association"
      [] k = "array"            -> "aggregation"

find_relationships(cfg, type, relationship_hint) ==
    IF isVoidType(type) \/ isVoidPointerType(type) THEN <<>>
    ELSE IF Canonical(type).k
                \in {"pointer", "rvalue_reference", "lvalue_reference", "array"}
        THEN find_relationships(cfg, Canonical(type).to,
                                WrapperHint(Canonical(type).k))
    ELSE IF Canonical(type).k = "enum"
        THEN << <<Id64(Canonical(type).id), relationship_hint>> >>
    ELSE IF type.k \in {"template_specialization", "template_alias"}
        THEN FindInArguments(cfg, SpecializationArgs(type), 1, relationship_hint)
    ELSE IF type.k = "record"
        THEN IF type.ns \in AdmittedNamespaces[cfg]
             THEN << <<NamespaceIds[type.ns], relationship_hint>> >>
             ELSE <<>>
    ELSE <<>>

\* the relationship_hint parameter's default value
DefaultHint == "dependency"

\* find_relationships on each type of a list in turn, with one hint
RECURSIVE FindInTypes(_, _, _, _)
FindInTypes(cfg, types, i, hint) ==
    IF i > Len(types) THEN <<>>
    ELSE find_relationships(cfg, types[i], hint) \o FindInTypes(cfg, types, i + 1, hint)

(***************************************************************************)
(* The visitor                                                             *)
(***************************************************************************)
\* lines 61-84: the package built for a namespace declaration
NewPackage(ns) ==
    LET qualified_name ==
            replace_all(replace_all(getQualifiedNameAsString(ns),
                                    AnonymousNamespace, <<>>),
                        <<":", ":", ":", ":">>, ColonColon)
        package_path   == namespace_(qualified_name)
        name           == IF Len(package_path) > 0
                          THEN package_path[Len(package_path)] ELSE <<>>
        package_parent == IF Len(package_path) > 0
                          THEN SubSeq(package_path, 1, Len(package_path) - 1)
                          ELSE package_path
    IN  [name |-> name, ns |-> package_parent, id |-> NamespaceIds[ns],
         comment |-> <<>>, line |-> 0, deprecated |-> FALSE,
         relationships |-> {}]

\* lines 89-99: process_comment, set_source_location and the Deprecated
\* attribute of the declaration (the style is a function of the comment)
Decorated(p, attrs) ==
    [p EXCEPT !.comment = attrs.comment, !.line = attrs.line,
              !.deprecated = attrs.deprecated]

\* line 88: the package is new to the diagram and the filter admits it
AdmitPackage_NoFilter(cfg, pkgs, p) == get(pkgs, p.id) = {}

AdmitPackage(cfg, pkgs, p) ==
    should_include_package(cfg, p) /\ get(pkgs, p.id) = {}

\* lines 88-104: the packages of the diagram after the declaration
AddNamespace(cfg, pkgs, ns, attrs) ==
    LET p0 == NewPackage(ns) IN
    IF AdmitPackage(cfg, pkgs, p0)
    THEN LET p == Decorated(p0, attrs) IN
         IF ~skip(p) THEN pkgs \cup {p} ELSE pkgs
    ELSE pkgs

\* lines 158-164: the id of the package the declaration belongs to
CurrentPackageId(ctx) == IF ctx # GlobalScope THEN NamespaceIds[ctx] ELSE Zero64

\* lines 171-176: the relationships added to current_package
RECURSIVE AddEach(_, _, _, _)
AddEach_SelfEdges(p, relationships, i, current_package_id) ==
    IF i > Len(relationships) THEN p
    ELSE AddEach(add_relationship(p, [type |-> "dependency",
                                      destination |-> relationships[i][1]]),
                 relationships, i + 1, current_package_id)

AddEach(p, relationships, i, current_package_id) ==
    IF i > Len(relationships) THEN p
    ELSE LET destination_id == relationships[i][1]
             r == [type |-> "dependency", destination |-> destination_id]
         IN  AddEach(IF destination_id # current_package_id
                     THEN add_relationship(p, r) ELSE p,
                     relationships, i + 1, current_package_id)

\* lines 168-177: the packages of the diagram after add_relationships
add_relationships(pkgs, ctx, relationships) ==
    LET current_package_id == CurrentPackageId(ctx)
        current_package    == get(pkgs, current_package_id)
    IN  {IF p \in current_package
         THEN AddEach(p, relationships, 1, current_package_id) ELSE p : p \in pkgs}

\* process_method and process_template_method: return type, then parameters
RECURSIVE ProcessMethods(_, _, _)
ProcessMethods(cfg, methods, i) ==
    IF i > Len(methods) THEN <<>>
    ELSE FindInTypes(cfg, methods[i], 1, DefaultHint)
            \o ProcessMethods(cfg, methods, i + 1)

RECURSIVE ProcessTemplateMethods(_, _, _)
ProcessTemplateMethods(cfg, methods, i) ==
    IF i > Len(methods) THEN <<>>
    ELSE (IF methods[i].defaulted /\ ~methods[i].explicitly_defaulted
          THEN <<>>
          ELSE FindInTypes(cfg, methods[i].types, 1, DefaultHint))
            \o ProcessTemplateMethods(cfg, methods, i + 1)

\* process_friend: only a friend type is looked at
RECURSIVE ProcessFriends(_, _, _)
ProcessFriends(cfg, friends, i) ==
    IF i > Len(friends) THEN <<>>
    ELSE (IF friends[i].is_decl THEN <<>>
          ELSE find_relationships(cfg, friends[i].type, DefaultHint))
            \o ProcessFriends(cfg, friends, i + 1)

\* process_class_declaration: the children, then the bases
process_class_declaration(cfg, cls) ==
    ProcessMethods(cfg, cls.methods, 1)
        \o ProcessTemplateMethods(cfg, cls.template_methods, 1)
        \o FindInTypes(cfg, cls.fields, 1, "dependency")
        \o FindInTypes(cfg, cls.static_fields, 1, "dependency")
        \o (IF cls.complete THEN ProcessFriends(cfg, cls.friends, 1) ELSE <<>>)
        \o FindInTypes(cfg, cls.bases, 1, DefaultHint)

(***************************************************************************)
(* The translation units the visitor is run on                             *)
(***************************************************************************)
\* the attributes of one namespace declaration: a [[deprecated]] attribute,
\* the comment above it and the line it is on
NsAttrs ==
    { [deprecated |-> FALSE, comment |-> <<>>,        line |-> 1],
      [deprecated |-> TRUE,  comment |-> DocComment,  line |-> 2],
      [deprecated |-> FALSE, comment |-> SkipComment, line |-> 3] }

EnumAB == Enum(AB, 7)

PkgTypes ==
    { Builtin, Record(A), Record(AB), Record(ADetail), Record(GlobalScope),
      EnumAB, LValueRef(Record(Std)),
      TemplateSpec(<<TypeArg(Record(AB)), OtherArg("Integral")>>) }

\* return type and parameter types of the functions
Signatures ==
    {<<Void, t>> : t \in PkgTypes} \cup {<<Record(AB), Pointer(Record(ADetail))>>}

EmptyRecord ==
    [templated |-> FALSE, complete |-> TRUE, methods |-> <<>>,
     template_methods |-> <<>>, fields |-> <<>>, static_fields |-> <<>>,
     friends |-> <<>>, bases |-> <<>>]

\* records with one member each, of every kind of member
RecordsOf(t) ==
    { [EmptyRecord EXCEPT !.methods = << <<t, Builtin>> >>],
      [EmptyRecord EXCEPT !.template_methods =
          << [defaulted |-> FALSE, explicitly_defaulted |-> FALSE,
              types |-> <<Void, t>>] >>],
      [EmptyRecord EXCEPT !.template_methods =
          << [defaulted |-> TRUE, explicitly_defaulted |-> FALSE,
              types |-> <<Void, t>>] >>],
      [EmptyRecord EXCEPT !.fields = <<t>>],
      [EmptyRecord EXCEPT !.static_fields = <<t>>],
      [EmptyRecord EXCEPT !.friends = << [is_decl |-> FALSE, type |-> t] >>],
      [EmptyRecord EXCEPT !.friends = << [is_decl |-> TRUE, type |-> t] >>],
      [EmptyRecord EXCEPT !.friends = << [is_decl |-> FALSE, type |-> t] >>,
                          !.complete = FALSE],
      [EmptyRecord EXCEPT !.bases = <<t>>],
      [EmptyRecord EXCEPT !.fields = <<t>>, !.templated = TRUE] }

Records ==
    RecordsOf(Record(AB))
    \cup { [EmptyRecord EXCEPT !.fields = <<EnumAB>>],
           [EmptyRecord EXCEPT !.bases = <<Array(Record(A))>>] }

\* the function and record declarations, those of system headers included
FunctionDecls ==
    {[system |-> FALSE, signature |-> sig] : sig \in Signatures}
    \cup {[system |-> TRUE, signature |-> <<Void, Record(AB)>>]}

RecordDecls ==
    {[system |-> FALSE, cls |-> cls] : cls \in Records}
    \cup {[system |-> TRUE, cls |-> [EmptyRecord EXCEPT !.fields = <<Record(AB)>>]]}

(***************************************************************************)
(* History: which namespaces the types of a declaration are declared in    *)
(***************************************************************************)
Range(seq) == {seq[i] : i \in 1..Len(seq)}

\* the namespaces of the enums and records a type is made of
RECURSIVE NamespacesOf(_)
NamespacesOf(t) ==
    CASE t.k \in {"record", "enum"} -> {t.ns} \ {GlobalScope}
      [] t.k \in {"pointer", "lvalue_reference", "rvalue_reference", "array"}
              -> NamespacesOf(t.to)
      [] t.k = "template_specialization"
              -> UNION {NamespacesOf(a.type) : a \in {x \in Range(t.args) : x.kind = "Type"}}
      [] t.k = "template_alias" -> NamespacesOf(t.aliased)
      [] t.k = "function_proto" -> UNION {NamespacesOf(x) : x \in Range(t.params)}
      [] OTHER -> {}

\* the types a record refers to through its methods, fields, static fields,
\* bases and friend types
TypesOfRecord(cls) ==
    UNION {Range(m) : m \in Range(cls.methods)}
    \cup UNION {Range(m.types) :
                m \in {x \in Range(cls.template_methods) :
                          ~(x.defaulted /\ ~x.explicitly_defaulted)}}
    \cup Range(cls.fields) \cup Range(cls.static_fields) \cup Range(cls.bases)
    \cup {f.type : f \in {x \in Range(cls.friends) : ~x.is_decl /\ cls.complete}}

References(ctx, types) ==
    IF ctx = GlobalScope THEN {}
    ELSE {<<ctx, b>> : b \in UNION {NamespacesOf(t) : t \in types}}

(***************************************************************************)
(* The traversal                                                           *)
(***************************************************************************)
None == [op |-> "none"]
NoCall == [fn |-> "none"]

InitVisitor ==
    /\ config \in Configs
    /\ ndebug \in BOOLEAN
    /\ packages = {}
    /\ visited = {}
    /\ refs = {}
    /\ last = None
    /\ aborted = ""
    /\ steps = 0
    /\ call = NoCall
    /\ GeneratorIdle

Running == aborted = "" /\ steps < MaxVisits

\* the front end visits a namespace after the namespace it is declared in
CanVisitNamespace(ns) == Len(ns) = 1 \/ Parent(ns) \in visited

\* a declaration is visited inside a namespace already entered, or at
\* global scope
Contexts == visited \cup {GlobalScope}

\* a type is declared before it is used: the namespaces of the types a
\* declaration refers to have been visited
Declared(types) == \A t \in types : NamespacesOf(t) \subseteq visited

VisitNamespaceDecl(ns, attrs) ==
    /\ Running
    /\ CanVisitNamespace(ns)
    /\ steps' = steps + 1
    /\ visited' = visited \cup {ns}
    /\ IF isAnonymousNamespace(ns) \/ isInline(ns)
       THEN /\ UNCHANGED <<packages, aborted>>
            /\ last' = [op |-> "VisitNamespaceDecl", ns |-> ns, attrs |-> attrs,
                        first |-> ns \notin visited, known |-> FALSE]
       ELSE LET p == NewPackage(ns) IN
            IF ~ndebug /\ p.id = Zero64
            THEN /\ aborted' = "p->id() > 0"
                 /\ UNCHANGED packages
                 /\ last' = [op |-> "assert"]
            ELSE /\ packages' = AddNamespace(config, packages, ns, attrs)
                 /\ aborted' = aborted
                 /\ last' = [op |-> "VisitNamespaceDecl", ns |-> ns,
                             attrs |-> attrs, first |-> ns \notin visited,
                             known |-> get(packages, p.id) # {}]
    /\ UNCHANGED <<config, ndebug, refs, call, m_model, pc, stack, ostr, m_config, sf, previous>>

\* add_relationships as a step: the assert of line 166, then lines 168-177
AddRelationshipsStep(op, ctx, relationships, types) ==
    IF ~ndebug /\ CurrentPackageId(ctx) = Zero64
    THEN /\ aborted' = "current_package_id != 0"
         /\ last' = [op |-> "assert"]
         /\ UNCHANGED <<packages, refs>>
    ELSE /\ packages' = add_relationships(packages, ctx, relationships)
         /\ refs' = refs \cup References(ctx, types)
         /\ last' = [op |-> op, ctx |-> ctx, found |-> relationships]
         /\ aborted' = aborted

VisitFunctionDecl(ctx, system, signature) ==
    /\ Running
    /\ Declared(Range(signature))
    /\ steps' = steps + 1
    /\ IF system
       THEN /\ last' = [op |-> "system header"]
            /\ UNCHANGED <<packages, refs, aborted>>
       ELSE AddRelationshipsStep("VisitFunctionDecl", ctx,
                FindInTypes(config, signature, 1, DefaultHint), Range(signature))
    /\ UNCHANGED <<config, ndebug, visited, call, m_model, pc, stack, ostr, m_config, sf, previous>>

VisitCXXRecordDecl(ctx, system, cls) ==
    /\ Running
    /\ Declared(TypesOfRecord(cls))
    /\ steps' = steps + 1
    /\ IF system
       THEN /\ last' = [op |-> "system header"]
            /\ UNCHANGED <<packages, refs, aborted>>
       ELSE IF cls.templated
       THEN /\ last' = [op |-> "templated record", ctx |-> ctx]
            /\ refs' = refs \cup References(ctx, TypesOfRecord(cls))
            /\ UNCHANGED <<packages, aborted>>
       ELSE AddRelationshipsStep("VisitCXXRecordDecl", ctx,
                process_class_declaration(config, cls), TypesOfRecord(cls))
    /\ UNCHANGED <<config, ndebug, visited, call, m_model, pc, stack, ostr, m_config, sf, previous>>

NextVisitor ==
    \/ \E ns \in NsPaths, attrs \in NsAttrs : VisitNamespaceDecl(ns, attrs)
    \/ \E ctx \in Contexts, f \in FunctionDecls :
            VisitFunctionDecl(ctx, f.system, f.signature)
    \/ \E ctx \in Contexts, r \in RecordDecls :
            VisitCXXRecordDecl(ctx, r.system, r.cls)

SpecVisitor == InitVisitor /\ [][NextVisitor]_vars

(***************************************************************************)
(* common::parse_unexposed_template_params                                 *)
(***************************************************************************)
isspace(c) == c = " "

\* util::trim: the string without its leading and trailing whitespace
RECURSIVE TrimLeft(_)
TrimLeft(s) == IF Len(s) > 0 /\ isspace(s[1]) THEN TrimLeft(Tail(s)) ELSE s

RECURSIVE TrimRight(_)
TrimRight(s) ==
    IF Len(s) > 0 /\ isspace(s[Len(s)])
    THEN TrimRight(SubSeq(s, 1, Len(s) - 1)) ELSE s

trim(s) == TrimRight(TrimLeft(s))

TypenameSpace == <<"t", "y", "p", "e", "n", "a", "m", "e", " ">>

\* util::trim_typename: trimmed, and without a leading "typename "
trim_typename(s) ==
    LET res == trim(s) IN
    IF MatchAt(res, TypenameSpace, 1)
    THEN trim(SubSeq(res, Len(TypenameSpace) + 1, Len(res))) ELSE res

\* the ns_resolve callback of the tests: the name as it is
ns_resolve(name) == name

\* template_parameter::make_unexposed_argument
make_unexposed_argument(type) == [type |-> type, params |-> <<>>, moved |-> FALSE]

\* lines 441-442 and 454-455: add_template_param of every nested parameter
add_template_params(t, nested_params) ==
    [t EXCEPT !.params = @ \o nested_params]

\* what std::move leaves in nested_params: as many parameters as before,
\* each in its moved-from state (nested_params is not cleared)
MovedFrom == [type |-> <<>>, params |-> <<>>, moved |-> TRUE]
AfterMove(nested_params) == [i \in 1..Len(nested_params) |-> MovedFrom]

\* to_string, lines 159-161: the spaces after commas and between closing
\* angle brackets are taken out of the printed type name
NormalizeTypeName(result) ==
    replace_all(replace_all(result, <<",", " ">>, <<",">>),
                <<">", " ", ">">>, <<">", ">">>)

\* lines 393-406: the position of the ">" that closes the bracket opened
\* before bracket_match_end, Len(params) + 1 (params.end()) when there is none
RECURSIVE BracketMatchEnd(_, _, _)
BracketMatchEnd(params, bracket_match_end, nested_level) ==
    IF bracket_match_end > Len(params) THEN bracket_match_end
    ELSE IF params[bracket_match_end] = "<"
         THEN BracketMatchEnd(params, bracket_match_end + 1, nested_level + 1)
    ELSE IF params[bracket_match_end] = ">"
         THEN IF nested_level > 0
              THEN BracketMatchEnd(params, bracket_match_end + 1, nested_level - 1)
              ELSE bracket_match_end
    ELSE BracketMatchEnd(params, bracket_match_end + 1, nested_level)

\* line 423: where the cursor is put after a bracket
AfterBracket(bracket_match_end) == bracket_match_end - 1

\* lines 381-382: the first position that holds no whitespace; reaching
\* Len(params) + 1 means that params.end() was dereferenced
RECURSIVE SkipSpace(_, _)
SkipSpace(params, it) ==
    IF it <= Len(params) /\ isspace(params[it]) THEN SkipSpace(params, it + 1)
    ELSE it

\* lines 437-446 and 450-458: the parameter completed from type and
\* nested_params
Completed(type, nested_params) ==
    add_template_params(
        make_unexposed_argument(ns_resolve(trim_typename(type))), nested_params)

\* the outcome of a call: the parameters returned, whether params.end() was
\* dereferenced (undefined behaviour), whether an iteration left the cursor
\* where it was or a recursive call was given no shorter string (the call
\* would not return), and the number of loop iterations
Outcome(res, past_end, stuck, iterations) ==
    [res |-> res, past_end |-> past_end, stuck |-> stuck,
     iterations |-> iterations]

RECURSIVE parse_unexposed_template_params(_, _)
RECURSIVE ParseLoop(_, _, _, _, _, _, _, _)

\* lines 388-460: the loop from the cursor it on, and what follows the loop
ParseLoop(params, depth, it, type, nested_params, res, past_end, iterations) ==
    LET finish ==
            Outcome(IF type # <<>>
                    THEN Append(res, Completed(type, nested_params)) ELSE res,
                    past_end, FALSE, iterations)
        complete ==
            ParseLoop(params, depth, it + 1, <<>>, AfterMove(nested_params),
                      Append(res, Completed(type, nested_params)),
                      past_end, iterations + 1)
    IN
    IF it > Len(params) THEN finish
    ELSE IF params[it] = "<" THEN
        LET bracket_match_begin == it + 1
            bracket_match_end   == BracketMatchEnd(params, bracket_match_begin, 0)
            nested_params_str   ==
                SubSeq(params, bracket_match_begin, bracket_match_end - 1)
            nested == parse_unexposed_template_params(nested_params_str, depth + 1)
            next   == AfterBracket(bracket_match_end) + 1
        IN  IF Len(nested_params_str) >= Len(params) \/ nested.stuck \/ next <= it
            THEN Outcome(res, past_end \/ nested.past_end, TRUE, iterations + 1)
            ELSE ParseLoop(params, depth, next, type,
                           IF nested.res = <<>>
                           THEN <<make_unexposed_argument(nested_params_str)>>
                           ELSE nested.res,
                           res, past_end \/ nested.past_end, iterations + 1)
    ELSE IF params[it] = ">" THEN (IF depth = 0 THEN finish ELSE complete)
    ELSE IF params[it] = "," THEN complete
    ELSE ParseLoop(params, depth, it + 1, Append(type, params[it]),
                   nested_params, res, past_end, iterations + 1)

parse_unexposed_template_params(params, depth) ==
    LET it == SkipSpace(params, 1) IN
    ParseLoop(params, depth, IF it > Len(params) THEN Len(params) + 1 ELSE it,
              <<>>, <<>>, <<>>, it > Len(params), 0)

(***************************************************************************)
(* common::split_ns                                                        *)
(***************************************************************************)
\* the pair (ns, name) as a record; ns.name() is the last token of the path
\* and ns.pop_back() removes it
split_ns_KeepTemplate(full_name) ==
    LET ns == namespace_(full_name)
    IN  [ns |-> SubSeq(ns, 1, Len(ns) - 1), name |-> ns[Len(ns)]]

split_ns(full_name) ==
    LET name_before_template == split(full_name, <<"<">>)[1]
        ns == namespace_(name_before_template)
    IN  [ns |-> SubSeq(ns, 1, Len(ns) - 1), name |-> ns[Len(ns)]]

(***************************************************************************)
(* common::tokenize_unexposed_template_parameter                           *)
(***************************************************************************)
UpperLetters == <<"A","B","C","D","E","F","G","H","I","J","K","L","M",
                  "N","O","P","Q","R","S","T","U","V","W","X","Y","Z">>
Digits == <<"0","1","2","3","4","5","6","7","8","9">>

isalpha(c) == \E i \in 1..26 : Letters[i] = c \/ UpperLetters[i] = c
isalnum(c) == isalpha(c) \/ \E i \in 1..10 : Digits[i] = c

is_identifier_character(c) == isalnum(c) \/ c = "_"

\* is_qualified_identifier of a word that is not empty (t.at(0) throws
\* std::out_of_range for an empty one)
is_qualified_identifier(t) ==
    /\ isalpha(t[1])
    /\ \A i \in 1..Len(t) : is_identifier_character(t[i]) \/ t[i] = ":"

KwClass     == <<"c", "l", "a", "s", "s">>
KwTypename  == <<"t", "y", "p", "e", "n", "a", "m", "e">>
KwStruct    == <<"s", "t", "r", "u", "c", "t">>
KwTemplated == <<"t", "e", "m", "p", "l", "a", "t", "e", "d">>
Ellipsis    == <<".", ".", ".">>

\* tok pushed to result unless it is empty
PushNonEmpty(result, tok) == IF tok # <<>> THEN Append(result, tok) ELSE result

\* lines 566-580: a "." met with the token tok under construction
DotStep_Append(tok, result) == [tok |-> Append(tok, "."), result |-> result]

DotStep(tok, result) ==
    IF tok = <<".", ".">> THEN [tok |-> <<>>, result |-> Append(result, Ellipsis)]
    ELSE IF tok = <<".">> THEN [tok |-> <<".", ".">>, result |-> result]
    ELSE IF tok # <<>> THEN [tok |-> <<".">>, result |-> Append(result, tok)]
    ELSE [tok |-> tok, result |-> result]

\* lines 536-592: the characters of a word from position i on, then the
\* token left at the end of the word
RECURSIVE WordLoop(_, _, _, _)
WordLoop(word, i, tok, result) ==
    IF i > Len(word)
    THEN LET last_tok == trim(tok) IN
         IF last_tok # <<>> /\ last_tok # KwClass /\ last_tok # KwTypename
                /\ word # KwStruct
         THEN Append(result, last_tok) ELSE result
    ELSE LET c == word[i] IN
         IF c \in {"(", ")", "[", "]"}
         THEN WordLoop(word, i + 1, <<>>, Append(PushNonEmpty(result, tok), <<c>>))
         ELSE IF c = ":"
         THEN IF tok # <<>> /\ tok # <<":">>
              THEN WordLoop(word, i + 1, <<":">>, Append(result, tok))
              ELSE WordLoop(word, i + 1, Append(tok, ":"), result)
         ELSE IF c = "," \/ c = "*"
         THEN WordLoop(word, i + 1, <<>>, Append(PushNonEmpty(result, tok), <<c>>))
         ELSE IF c = "."
         THEN WordLoop(word, i + 1, DotStep(tok, result).tok,
                       DotStep(tok, result).result)
         ELSE WordLoop(word, i + 1, Append(tok, c), result)

\* lines 527-593: the words from the i-th on
RECURSIVE TokenizeWords(_, _, _)
TokenizeWords(spaced_out, i, result) ==
    IF i > Len(spaced_out) THEN result
    ELSE IF spaced_out[i] = <<>> THEN "out_of_range"
    ELSE IF is_qualified_identifier(spaced_out[i])
         THEN TokenizeWords(spaced_out, i + 1,
                IF /\ spaced_out[i] # KwClass
                   /\ spaced_out[i] # KwTemplated
                   /\ spaced_out[i] # KwStruct
                THEN Append(result, spaced_out[i]) ELSE result)
    ELSE TokenizeWords(spaced_out, i + 1, WordLoop(spaced_out[i], 1, <<>>, result))

\* the tokens returned, or "out_of_range" when is_qualified_identifier threw
tokenize_unexposed_template_parameter(t) ==
    TokenizeWords(split(t, <<" ">>), 1, <<>>)

(***************************************************************************)
(* cli::cli_handler: the log level                                         *)
(***************************************************************************)
\* parse, lines 217-223: the member verbose after the command line is read;
\* opts.verbose is the number of -v flags counted into it
parse(opts) ==
    LET counted == IF opts.quiet \/ opts.dump_config \/ opts.print_from
                        \/ opts.print_to
                   THEN 0 ELSE opts.verbose + 1
    IN  IF opts.progress /\ opts.logger_type = "text" THEN 0 ELSE counted

\* setup_logging, lines 54-65: the level the logger is set to
setup_logging_NoTrace(verbose) ==
    IF verbose = 0 THEN "err"
    ELSE IF verbose = 1 THEN "info"
    ELSE "debug"

setup_logging(verbose) ==
    IF verbose = 0 THEN "err"
    ELSE IF verbose = 1 THEN "info"
    ELSE IF verbose = 2 THEN "debug"
    ELSE "trace"

(***************************************************************************)
(* cli::cli_handler::add_custom_user_data                                  *)
(***************************************************************************)
\* map[key] = value, of a YAML or JSON map
Assign(map, key, value) ==
    [k \in DOMAIN map \cup {key} |-> IF k = key THEN value ELSE map[k]]

\* nlohmann::json values: null, a string, an array of n elements, an object
JsonNull      == [t |-> "null"]
JsonString(s) == [t |-> "string", v |-> s]
JsonArray(n)  == [t |-> "array", n |-> n]
JsonObject(m) == [t |-> "object", m |-> m]

is_object(j) == j.t = "object"

\* json::empty(): true of null and of an object or array without elements
empty(j) ==
    CASE j.t = "null" -> TRUE
      [] j.t = "object" -> DOMAIN j.m = {}
      [] j.t = "array" -> j.n = 0
      [] OTHER -> FALSE

\* lines 860-870 for one key path, from its i-th key on, at the value node:
\* the result and the value after it. operator[] with a key makes an object
\* of null, adds the key with null when the object has not got it, and
\* throws json::type_error on an array.
RECURSIVE StoreAt(_, _, _, _)
StoreAt(node, path, i, value) ==
    IF i > Len(path) THEN [res |-> "kContinue", node |-> value]
    ELSE IF ~is_object(node) /\ ~empty(node) THEN [res |-> "kError", node |-> node]
    ELSE IF node.t = "array" THEN [res |-> "type_error", node |-> node]
    ELSE LET m == IF node.t = "null" THEN <<>> ELSE node.m
             child == IF path[i] \in DOMAIN m THEN m[path[i]] ELSE JsonNull
             below == StoreAt(child, path, i + 1, value)
         IN  [res |-> below.res,
              node |-> JsonObject(Assign(m, path[i], below.node))]

\* add_custom_user_data: the result and config.user_data after it
RECURSIVE add_custom_user_data(_, _)
add_custom_user_data(user_data, config_user_data) ==
    IF user_data = <<>> THEN [res |-> "kContinue", user_data |-> config_user_data]
    ELSE LET key_path == Head(user_data)[1]
             value == Head(user_data)[2]
             stored == StoreAt(config_user_data, split(key_path, <<".">>), 1,
                               JsonString(value))
         IN  IF stored.res # "kContinue"
             THEN [res |-> stored.res, user_data |-> stored.node]
             ELSE add_custom_user_data(Tail(user_data), stored.node)

(***************************************************************************)
(* cli::cli_handler: the options before the configuration is loaded        *)
(***************************************************************************)
\* std::optional
NoValue == [has_value |-> FALSE]
Some(v) == [has_value |-> TRUE, value |-> v]

\* the configuration file on disk: absent, or a YAML document with its
\* diagrams, a map from names to types; fault tells what config::load finds
\* wrong with it
NoFile == [exists |-> FALSE]
FileOf(diagrams, fault, user_data) ==
    [exists |-> TRUE, diagrams |-> diagrams, fault |-> fault, user_data |-> user_data]

\* create_config_file: the result and the file after it
create_config_file(file) ==
    IF file.exists
    THEN [res |-> "kError", file |-> file]
    ELSE [res |-> "kExit",
          file |-> FileOf(Assign(<<>>, "example_class_diagram", "class"),
                          "none", JsonNull)]

\* the "type" written for a diagram_t
TypeName(type) ==
    CASE type = "kClass" -> "class"
      [] type = "kSequence" -> "sequence"
      [] type = "kPackage" -> "package"
      [] type = "kInclude" -> "include"

\* add_config_diagram: the result and the file after it
add_config_diagram_Overwrite(type, file, name) ==
    IF ~file.exists
    THEN [res |-> "kError", file |-> file]
    ELSE [res |-> "kExit",
          file |-> [file EXCEPT !.diagrams = Assign(@, name, TypeName(type))]]

add_config_diagram(type, file, name) ==
    IF ~file.exists
    THEN [res |-> "kError", file |-> file]
    ELSE IF \E n \in DOMAIN file.diagrams : n = name
    THEN [res |-> "kError", file |-> file]
    ELSE [res |-> "kExit",
          file |-> [file EXCEPT !.diagrams = Assign(@, name, TypeName(type))]]

\* handle_pre_config_options: the result and the file at config_path after
\* it (with config_path "-" the configuration is read from stdin and file is
\* the file a writer would be given)
handle_pre_config_options_InitFirst(opts, file) ==
    IF opts.show_version THEN [res |-> "kExit", file |-> file]
    ELSE IF opts.initialize THEN create_config_file(file)
    ELSE IF (opts.print_from \/ opts.print_to) /\ Len(opts.diagram_names) # 1
    THEN [res |-> "kError", file |-> file]
    ELSE [res |-> "kContinue", file |-> file]

handle_pre_config_options(opts, file) ==
    IF opts.show_version THEN [res |-> "kExit", file |-> file]
    ELSE IF /\ opts.config_path = "-"
            /\ \/ opts.initialize
               \/ opts.add_diagram_from_template.has_value
               \/ opts.add_class_diagram.has_value
               \/ opts.add_sequence_diagram.has_value
               \/ opts.add_package_diagram.has_value
               \/ opts.add_include_diagram.has_value
    THEN [res |-> "kError", file |-> file]
    ELSE IF (opts.print_from \/ opts.print_to) /\ Len(opts.diagram_names) # 1
    THEN [res |-> "kError", file |-> file]
    ELSE IF opts.initialize THEN create_config_file(file)
    ELSE IF opts.config_path # "-" /\ opts.add_class_diagram.has_value
    THEN add_config_diagram("kClass", file, opts.add_class_diagram.value)
    ELSE IF opts.config_path # "-" /\ opts.add_sequence_diagram.has_value
    THEN add_config_diagram("kSequence", file, opts.add_sequence_diagram.value)
    ELSE IF opts.config_path # "-" /\ opts.add_package_diagram.has_value
    THEN add_config_diagram("kPackage", file, opts.add_package_diagram.value)
    ELSE IF opts.config_path # "-" /\ opts.add_include_diagram.has_value
    THEN add_config_diagram("kInclude", file, opts.add_include_diagram.value)
    ELSE [res |-> "kContinue", file |-> file]

(***************************************************************************)
(* cli::cli_handler: loading the configuration and the options after it    *)
(***************************************************************************)
\* the config.diagram_templates of every configuration, and what rendering
\* one gives: a diagram node, a node parse_diagram_config rejects, or an
\* inja::InjaError
Templates == {"t_ok", "t_cfg", "t_inja"}

Render(template_name) ==
    CASE template_name = "t_ok"
            -> [error |-> FALSE, name |-> "generated", type |-> "class", valid |-> TRUE]
      [] template_name = "t_cfg"
            -> [error |-> FALSE, name |-> "generated", type |-> "class", valid |-> FALSE]
      [] OTHER -> [error |-> TRUE]

\* config::load(config_path, ..., validate): what it throws, or "" when it
\* returns the configuration
Load(file, validate) ==
    IF ~file.exists \/ file.fault = "yaml" THEN "runtime_error"
    ELSE IF validate /\ file.fault = "schema" THEN "config_schema_error"
    ELSE ""

ConfigOf(file) ==
    [diagrams |-> file.diagrams, user_data |-> file.user_data]

NoConfig == [diagrams |-> <<>>, user_data |-> JsonNull]

\* load_config: the result, what is written to ostr_ and the configuration
load_config(opts, file) ==
    IF Load(file, ~opts.no_validate) # ""
    THEN [res |-> "kError", out |-> Load(file, ~opts.no_validate), config |-> NoConfig]
    ELSE IF opts.validate_only
    THEN [res |-> "kExit", out |-> "valid", config |-> ConfigOf(file)]
    ELSE [res |-> "kContinue", out |-> "", config |-> ConfigOf(file)]

\* render_diagram_template: the result and the diagram node
render_diagram_template(template_name, template_variables) ==
    IF template_name \notin Templates THEN [res |-> "kError"]
    ELSE IF \E i \in 1..Len(template_variables) :
                Len(split(template_variables[i], <<"=">>)) # 2
    THEN [res |-> "kError"]
    ELSE IF Render(template_name).error THEN [res |-> "kError"]
    ELSE [res |-> "kContinue", node |-> Render(template_name)]

\* generate_diagram_from_template: the result, config.diagrams and
\* diagram_names after it
generate_diagram_from_template(opts, cfg, template_name) ==
    LET rendered == render_diagram_template(template_name, opts.template_variables) IN
    IF rendered.res = "kError"
    THEN [res |-> "kError", config |-> cfg, diagram_names |-> opts.diagram_names]
    ELSE IF rendered.node.valid
    THEN [res |-> "kContinue",
          config |-> [cfg EXCEPT !.diagrams =
                          Assign(@, rendered.node.name, rendered.node.type)],
          diagram_names |-> Append(opts.diagram_names, rendered.node.name)]
    ELSE [res |-> "kError", config |-> cfg, diagram_names |-> opts.diagram_names]

\* add_config_diagram_from_template: the result and the file after it
add_config_diagram_from_template(opts, file, template_name) ==
    LET rendered == render_diagram_template(template_name, opts.template_variables) IN
    IF rendered.res = "kError" THEN [res |-> "kError", file |-> file]
    ELSE IF ~file.exists THEN [res |-> "kError", file |-> file]
    ELSE [res |-> "kExit",
          file |-> [file EXCEPT !.diagrams =
                        Assign(@, rendered.node.name, rendered.node.type)]]

\* handle_post_config_options: the result, the configuration, diagram_names
\* and the file after it; dir_ok is what ensure_output_directory_exists
\* returns
Ended(res, opts, cfg, file) ==
    [res |-> res, config |-> cfg, diagram_names |-> opts.diagram_names,
     file |-> file]

handle_post_config_options(opts, cfg, file, dir_ok) ==
    IF opts.dump_config THEN Ended("kExit", opts, cfg, file)
    ELSE IF opts.list_diagrams THEN Ended("kExit", opts, cfg, file)
    ELSE IF opts.list_templates THEN Ended("kExit", opts, cfg, file)
    ELSE IF opts.show_template.has_value
    THEN Ended(IF opts.show_template.value \in Templates THEN "kExit" ELSE "kError",
               opts, cfg, file)
    ELSE IF opts.config_path # "-" /\ opts.add_diagram_from_template.has_value
    THEN LET added == add_config_diagram_from_template(opts, file,
                            opts.add_diagram_from_template.value)
         IN  Ended(added.res, opts, cfg, added.file)
    ELSE LET generated ==
                 IF opts.generate_from_template.has_value
                 THEN generate_diagram_from_template(opts, cfg,
                            opts.generate_from_template.value)
                 ELSE [res |-> "kContinue", config |-> cfg,
                       diagram_names |-> opts.diagram_names]
             data == add_custom_user_data(opts.user_data, generated.config.user_data)
             config_after == [generated.config EXCEPT !.user_data = data.user_data]
         IN  [res |-> IF data.res # "kContinue" THEN data.res
                      ELSE IF ~dir_ok THEN "kError"
                      ELSE "kContinue",
              config |-> config_after,
              diagram_names |-> generated.diagram_names,
              file |-> file]

\* handle_options, after a parse that returns kContinue: the result, the
\* file, whether config::load was called, what load_config wrote, the
\* configuration and diagram_names
handle_options(opts, file, dir_ok) ==
    LET pre == handle_pre_config_options(opts, file) IN
    IF pre.res # "kContinue"
    THEN [res |-> pre.res, file |-> pre.file, loaded |-> FALSE, out |-> "",
          config |-> NoConfig, diagram_names |-> opts.diagram_names]
    ELSE LET load == load_config(opts, pre.file) IN
         IF load.res # "kContinue"
         THEN [res |-> load.res, file |-> pre.file, loaded |-> TRUE,
               out |-> load.out, config |-> load.config,
               diagram_names |-> opts.diagram_names]
         ELSE LET post == handle_post_config_options(opts, load.config,
                                pre.file, dir_ok)
              IN  [res |-> post.res, file |-> post.file, loaded |-> TRUE,
                   out |-> "", config |-> post.config,
                   diagram_names |-> post.diagram_names]

(***************************************************************************)
(* The helper functions called alone                                       *)
(***************************************************************************)
\* relationship_t
RelationshipKinds ==
    {"extension", "composition", "aggregation", "association", "dependency",
     "instantiation", "friendship", "constraint"}

Wrappers == {"pointer", "lvalue_reference", "rvalue_reference", "array"}
IsReference(t) == t.k \in {"lvalue_reference", "rvalue_reference"}

LeafTypes ==
    {Void, Builtin, Record(AB), Record(ADetail), Record(GlobalScope), EnumAB}

\* the types of C++ with at most n wrappers: no pointer to, array of or
\* reference to a reference, no array of void, no reference to void
RECURSIVE TypesUpTo(_)
TypesUpTo(n) ==
    IF n = 0 THEN LeafTypes
    ELSE LET inner == {t \in TypesUpTo(n - 1) : ~IsReference(t)} IN
         TypesUpTo(n - 1)
            \cup {Pointer(t) : t \in inner}
            \cup {w[t] : w \in {[x \in inner \ {Void} |-> Array(x)],
                                [x \in inner \ {Void} |-> LValueRef(x)],
                                [x \in inner \ {Void} |-> RValueRef(x)]},
                         t \in inner \ {Void}}

Types == TypesUpTo(WrapDepth)

\* the template arguments of the specializations handed to find_relationships
TemplateArguments ==
    {TypeArg(t) : t \in {Builtin, Record(AB), Record(ADetail), EnumAB,
                         Pointer(Record(AB)), RValueRef(Record(A)),
                         FunctionProto(<<Record(AB), Builtin, Record(A)>>),
                         TemplateSpec(<<TypeArg(Record(A))>>)}}
    \cup {OtherArg(kind) : kind \in {"Integral", "Null", "Expression", "NullPtr",
                                     "Template", "TemplateExpansion"}}

RECURSIVE ArgumentLists(_)
ArgumentLists(n) ==
    IF n = 0 THEN {<<>>}
    ELSE ArgumentLists(n - 1)
            \cup {Append(args, a) :
                    args \in {x \in ArgumentLists(n - 1) : Len(x) = n - 1},
                    a \in TemplateArguments}

\* template<class T> using X = ...: X<a::b::R> as an alias of the record
\* itself, of a pointer to it, of a specialization with another argument
\* and of a specialization of an alias template
AliasTypes ==
    LET own == <<TypeArg(Record(AB))>> IN
    { AliasTemplateSpec(own, Record(AB)),
      AliasTemplateSpec(own, Pointer(Record(AB))),
      AliasTemplateSpec(own, TemplateSpec(<<TypeArg(Pointer(Record(AB))),
                                            OtherArg("Integral")>>)),
      AliasTemplateSpec(own, AliasTemplateSpec(<<TypeArg(Record(A))>>, Record(A))) }

TemplateTypes ==
    {TemplateSpec(args) : args \in ArgumentLists(MaxArgs)} \cup AliasTypes

Components == {Named(nA), Named(nB), Anonymous, Inline(nV)}

RECURSIVE PathsUpTo(_)
PathsUpTo(n) ==
    IF n = 0 THEN {<<>>}
    ELSE PathsUpTo(n - 1)
            \cup {Append(ns, c) : ns \in {x \in PathsUpTo(n - 1) : Len(x) = n - 1},
                                  c \in Components}

\* the namespaces handed to the helpers
HelperPaths == PathsUpTo(NsDepth) \ {GlobalScope}

InitHelpers ==
    /\ config = [include |-> {}, exclude |-> {}]
    /\ ndebug = FALSE
    /\ packages = {}
    /\ visited = {}
    /\ refs = {}
    /\ last = None
    /\ aborted = ""
    /\ steps = 0
    /\ call = NoCall
    /\ GeneratorIdle

\* the strings of at most n characters of an alphabet
RECURSIVE StringsUpTo(_, _)
StringsUpTo(alphabet, n) ==
    IF n = 0 THEN {<<>>}
    ELSE StringsUpTo(alphabet, n - 1)
            \cup {Append(w, c) :
                    w \in {x \in StringsUpTo(alphabet, n - 1) : Len(x) = n - 1},
                    c \in alphabet}

\* the template argument strings handed to parse_unexposed_template_params:
\* every short one, and some longer ones
ParamStrings ==
    StringsUpTo({"A", "<", ">", ",", " "}, MaxParamLen)
    \cup { <<"A", "<", "B", "<", "C", ",", "D", ">", ",", "E", ">">>,
           <<"A", "<", "B", "<", "C", ">", " ", ">">>,
           <<"A", "<", "B", "<", "C", ">", ">">>,
           <<"A", "<", "B", ",", "C", "<", "D", ">", " ", ">">>,
           <<"A", "<", "B", ",", "C", "<", "D", ">", ">">>,
           <<"A", "<", "B", ",", "C", "<", "D">>,
           <<"A", "<", "B", ",", " ", "C", ">">> }

\* the strings handed to tokenize_unexposed_template_parameter: every short
\* one, and some longer ones with keywords and packs
TokenStrings ==
    StringsUpTo({"T", "s", ".", ",", "*", " "}, MaxTokenLen)
    \cup { <<"t", "y", "p", "e", "n", "a", "m", "e", " ", "T">>,
           <<"c", "l", "a", "s", "s", " ", "T">>,
           <<"s", "t", "r", "u", "c", "t", " ", "T">>,
           <<"*", "s", "t", "r", "u", "c", "t">>,
           <<"*", "c", "l", "a", "s", "s">>,
           <<"T", "s", ".", ".", ".">>,
           <<"T", ",", "T", "s", ".", ".", ".">>,
           <<"a", ":", ":", "T", "s", ".", ".", ".">>,
           <<".", ".", ".">>,
           <<"t", "e", "m", "p", "l", "a", "t", "e", "d", " ", "T">>,
           <<"u", "n", "s", "i", "g", "n", "e", "d", " ", "i", "n", "t">>,
           <<"(", "T", ")">>,
           <<"T", "[", "]">> }

\* the names handed to split_ns: up to NsDepth non-empty tokens joined by
\* "::", alone or followed by template arguments
RECURSIVE TokenPaths(_)
TokenPaths(n) ==
    IF n = 0 THEN {<<>>}
    ELSE TokenPaths(n - 1)
            \cup {Append(ns, c) : ns \in {x \in TokenPaths(n - 1) : Len(x) = n - 1},
                                  c \in {nA, nB, nDetail}}

TemplateSuffixes ==
    { <<>>, <<"<", "T", ">">>, <<"<", "a", ":", ":", "T", ",", "U", ">">>,
      <<"<", "T", "<", "U", ">", ">">>, <<"<">> }

FullNames ==
    {Join(tokens) \o suffix : tokens \in TokenPaths(NsDepth) \ {<<>>},
                              suffix \in TemplateSuffixes}

\* a behaviour of the helpers is one call of one helper on one input
Frame == UNCHANGED <<config, ndebug, packages, visited, refs, last, aborted, steps,
                     m_model, pc, stack, ostr, m_config, sf, previous>>

CallToId(full_name) ==
    /\ call = NoCall
    /\ call' = [fn |-> "to_id", arg |-> full_name, result |-> to_id(full_name)]
    /\ Frame

CallToIdNs(ns) ==
    /\ call = NoCall
    /\ call' = [fn |-> "to_id_ns", arg |-> ns, result |-> to_id_ns(ns)]
    /\ Frame

CallGetTagNamespace(ns, records) ==
    /\ call = NoCall
    /\ call' = [fn |-> "get_tag_namespace", ns |-> ns, records |-> records,
                result |-> get_tag_namespace(ParentChain(ns, records))]
    /\ Frame

CallFindRelationships(cfg, type, hint) ==
    /\ call = NoCall
    /\ call' = [fn |-> "find_relationships", cfg |-> cfg, type |-> type,
                hint |-> hint, result |-> find_relationships(cfg, type, hint)]
    /\ Frame

\* checked: the standard library is built with checked iterators, where
\* dereferencing params.end() ends the program
CallParseUnexposedTemplateParams(params, depth, checked) ==
    /\ call = NoCall
    /\ LET outcome == parse_unexposed_template_params(params, depth) IN
       call' = [fn |-> "parse_unexposed_template_params", params |-> params,
                depth |-> depth, checked |-> checked, outcome |-> outcome,
                result |-> IF checked /\ outcome.past_end
                           THEN "abort" ELSE outcome.res]
    /\ Frame

CallTokenize(t) ==
    /\ call = NoCall
    /\ call' = [fn |-> "tokenize_unexposed_template_parameter", t |-> t,
                result |-> tokenize_unexposed_template_parameter(t)]
    /\ Frame

CallSplitNs(full_name) ==
    /\ call = NoCall
    /\ call' = [fn |-> "split_ns", full_name |-> full_name,
                result |-> split_ns(full_name)]
    /\ Frame

\* the options the log level depends on
LoggingOptions ==
    [verbose : 0..MaxVerbose, quiet : BOOLEAN, dump_config : BOOLEAN,
     print_from : BOOLEAN, print_to : BOOLEAN, progress : BOOLEAN,
     logger_type : {"text", "json"}]

CallSetupLogging(opts) ==
    /\ call = NoCall
    /\ call' = [fn |-> "setup_logging", opts |-> opts,
                result |-> setup_logging(parse(opts))]
    /\ Frame

\* config.user_data as loaded, and the --user-data options
KeyA == <<"a">>
KeyB == <<"b">>
UserDataValues ==
    { JsonNull, JsonString("x"), JsonArray(0), JsonArray(1),
      JsonObject(<<>>),
      JsonObject([k \in {KeyA} |-> JsonString("x")]),
      JsonObject([k \in {KeyA} |-> JsonNull]),
      JsonObject([k \in {KeyA} |-> JsonArray(0)]),
      JsonObject([k \in {KeyA} |-> JsonObject([j \in {KeyB} |-> JsonString("x")])]),
      JsonObject([k \in {KeyA} |-> JsonObject(<<>>)]) }

KeyPaths ==
    { <<"a">>, <<"b">>, <<"a", ".", "b">>, <<"a", ".", "b", ".", "a">> }

UserDataOptions ==
    { <<>> } \cup { << <<key, "v">> >> : key \in KeyPaths }
    \cup { << <<k1, "v">>, <<k2, "w">> >> : k1 \in KeyPaths, k2 \in KeyPaths }

CallAddCustomUserData(user_data, config_user_data) ==
    /\ call = NoCall
    /\ call' = [fn |-> "add_custom_user_data", user_data |-> user_data,
                config_user_data |-> config_user_data,
                result |-> add_custom_user_data(user_data, config_user_data)]
    /\ Frame

\* the configuration files on disk
DiagramMaps ==
    { <<>>, [n \in {"d1"} |-> "class"],
      [n \in {"d1", "d2"} |-> IF n = "d1" THEN "class" ELSE "sequence"] }

ConfigFiles ==
    {NoFile} \cup {FileOf(diagrams, "none", JsonNull) : diagrams \in DiagramMaps}

FaultyFiles ==
    { FileOf(<<>>, fault, JsonNull) : fault \in {"schema", "yaml"} }

DiagramTypes == {"kClass", "kSequence", "kPackage", "kInclude"}

CallCreateConfigFile(file) ==
    /\ call = NoCall
    /\ call' = [fn |-> "create_config_file", file |-> file,
                result |-> create_config_file(file)]
    /\ Frame

CallAddConfigDiagram(type, file, name) ==
    /\ call = NoCall
    /\ call' = [fn |-> "add_config_diagram", type |-> type, file |-> file,
                name |-> name, result |-> add_config_diagram(type, file, name)]
    /\ Frame

\* the command line without any option
DefaultOptions ==
    [show_version |-> FALSE, config_path |-> ".clang-uml", initialize |-> FALSE,
     add_diagram_from_template |-> NoValue, add_class_diagram |-> NoValue,
     add_sequence_diagram |-> NoValue, add_package_diagram |-> NoValue,
     add_include_diagram |-> NoValue, print_from |-> FALSE, print_to |-> FALSE,
     diagram_names |-> <<>>, no_validate |-> FALSE, validate_only |-> FALSE,
     dump_config |-> FALSE, list_diagrams |-> FALSE, list_templates |-> FALSE,
     show_template |-> NoValue, generate_from_template |-> NoValue,
     template_variables |-> <<>>, user_data |-> <<>>]

Optional(values) == {NoValue} \cup {Some(v) : v \in values}

\* the options handle_pre_config_options reads
PreConfigOptions ==
    { [DefaultOptions EXCEPT
          !.show_version = o.show_version, !.config_path = o.config_path,
          !.initialize = o.initialize,
          !.add_diagram_from_template = o.add_diagram_from_template,
          !.add_class_diagram = o.add_class_diagram,
          !.add_sequence_diagram = o.add_sequence_diagram,
          !.add_package_diagram = o.add_package_diagram,
          !.add_include_diagram = o.add_include_diagram,
          !.print_from = o.print_from, !.print_to = o.print_to,
          !.diagram_names = o.diagram_names] :
      o \in [show_version : BOOLEAN, config_path : {"-", ".clang-uml"},
             initialize : BOOLEAN, add_diagram_from_template : Optional({"t_ok"}),
             add_class_diagram : Optional({"d1"}),
             add_sequence_diagram : Optional({"d2"}),
             add_package_diagram : Optional({"d3"}),
             add_include_diagram : Optional({"d3"}),
             print_from : BOOLEAN, print_to : BOOLEAN,
             diagram_names : {<<>>, <<"d1">>, <<"d1", "d2">>}] }

\* the options load_config reads
LoadOptions ==
    { [DefaultOptions EXCEPT !.no_validate = o.no_validate,
                             !.validate_only = o.validate_only,
                             !.config_path = o.config_path] :
      o \in [no_validate : BOOLEAN, validate_only : BOOLEAN,
             config_path : {"-", ".clang-uml"}] }

\* the options handle_post_config_options reads
PostConfigOptions ==
    { [DefaultOptions EXCEPT
          !.dump_config = o.dump_config,
          !.generate_from_template = o.generate_from_template,
          !.template_variables = o.template_variables,
          !.user_data = o.user_data] :
      o \in [dump_config : BOOLEAN,
             generate_from_template : Optional(Templates \cup {"t_none"}),
             template_variables : {<<>>, << <<"a", "=", "b">> >>,
                                   << <<"a", "=", "b">>, <<"a", "b">> >>},
             user_data : {<<>>, << <<KeyA, "v">> >>}] }

\* a command line, the file at config_path and the state of the output
\* directory
HandleOptionsInputs ==
    (PreConfigOptions \X {NoFile, FileOf(<<>>, "none", JsonNull),
                          FileOf([n \in {"d1"} |-> "class"], "none", JsonNull)}
                      \X {TRUE})
    \cup (LoadOptions \X (ConfigFiles \cup FaultyFiles) \X {TRUE})
    \cup (PostConfigOptions
            \X {FileOf([n \in {"d1"} |-> "class"], "none", ud) :
                    ud \in {JsonNull, JsonArray(1)}}
            \X BOOLEAN)

CallHandleOptions(opts, file, dir_ok) ==
    /\ call = NoCall
    /\ call' = [fn |-> "handle_options", opts |-> opts, file |-> file,
                dir_ok |-> dir_ok, result |-> handle_options(opts, file, dir_ok)]
    /\ Frame

NextHelpers ==
    \/ \E file \in ConfigFiles : CallCreateConfigFile(file)
    \/ \E type \in DiagramTypes, file \in ConfigFiles, name \in {"d1", "d3"} :
            CallAddConfigDiagram(type, file, name)
    \/ \E in \in HandleOptionsInputs : CallHandleOptions(in[1], in[2], in[3])
    \/ \E user_data \in UserDataOptions, config_user_data \in UserDataValues :
            CallAddCustomUserData(user_data, config_user_data)
    \/ \E opts \in LoggingOptions : CallSetupLogging(opts)
    \/ \E full_name \in FullNames : CallSplitNs(full_name)
    \/ \E t \in TokenStrings : CallTokenize(t)
    \/ \E params \in ParamStrings, depth \in 0..1, checked \in BOOLEAN :
            CallParseUnexposedTemplateParams(params, depth, checked)
    \/ \E ns \in HelperPaths : CallToId(getQualifiedNameAsString(ns))
    \/ \E ns \in HelperPaths : CallToIdNs(ns)
    \/ \E ns \in PathsUpTo(NsDepth), records \in 0..2 : CallGetTagNamespace(ns, records)
    \/ \E cfg \in Configs, type \in Types \cup TemplateTypes,
            hint \in RelationshipKinds :
            CallFindRelationships(cfg, type, hint)

SpecHelpers == InitHelpers /\ [][NextHelpers]_vars

(***************************************************************************)
(* puml::generator of the sequence diagram                                 *)
(***************************************************************************)
\* the frames of generate_activity the machine's stack holds
StackLimit == 3
\* the messages of one activity
MaxMessages == 2

\* the USRs that are keys of m_model.sequences, and a callee that is none
Usrs == {"u1", "u2"}
Callees == Usrs \cup {"x2"}

\* the participant a USR is a method of: u1 and x2 of a::X, u2 of a::Y
ParticipantOf(usr) == IF usr = "u2" THEN <<nA, <<"Y">>>> ELSE <<nA, <<"X">>>>

using_namespace == <<nA>>

\* ns_relative(namespaces, name): the name without the using_namespace prefix
ns_relative(ns, name) ==
    IF IsPrefix(ns, name) THEN SubSeq(name, Len(ns) + 1, Len(name)) ELSE name

Messages(from_usr) ==
    { [from |-> ParticipantOf(from_usr), to |-> ParticipantOf(to_usr),
       to_usr |-> to_usr, message |-> to_usr, return_type |-> return_type] :
         to_usr \in Callees, return_type \in {"void", "int"} }

\* the activity of u1 has up to MaxMessages messages, that of u2 one less
SequenceModels ==
    { [sequences |-> [usr \in Usrs |-> IF usr = "u1" THEN a1 ELSE a2]] :
        a1 \in StringsUpTo(Messages("u1"), MaxMessages),
        a2 \in StringsUpTo(Messages("u2"), MaxMessages - 1) }

\* the entries of m_config.start_from: a source_location variant holding a
\* USR, a fully-qualified function name or a file and line
StartFromEntries ==
    { [kind |-> "usr", usr |-> usr] : usr \in Callees }
    \cup { [kind |-> "function", usr |-> "u1"], [kind |-> "location", usr |-> "u2"] }

\* the start_from entries of one configuration
MaxStartFrom == 2

SequenceConfigs ==
    { [start_from |-> entries] : entries \in StringsUpTo(StartFromEntries, MaxStartFrom) }

InitSequence ==
    /\ config = [include |-> {}, exclude |-> {}]
    /\ ndebug = FALSE
    /\ packages = {}
    /\ visited = {}
    /\ refs = {}
    /\ last = None
    /\ aborted = ""
    /\ steps = 0
    /\ call = NoCall
    /\ m_model \in SequenceModels
    /\ pc = "start"
    /\ stack = <<>>
    /\ ostr = <<>>
    /\ m_config \in SequenceConfigs
    /\ sf = 1
    /\ previous = NotWritten

VisitorIdle ==
    UNCHANGED <<config, ndebug, packages, visited, refs, last, aborted, steps,
                call, m_config>>

\* a call of generate_activity: the activity walked, the message it is at,
\* and whether that message's call or its return comes next
ActivityFrame(usr) == [usr |-> usr, i |-> 1, at |-> "call"]

Top == stack[Len(stack)]
MessagesOf(frame) == m_model.sequences[frame.usr]
CurrentMessage == MessagesOf(Top)[Top.i]

CallLine(m) ==
    [k |-> "call", from |-> ns_relative(using_namespace, m.from),
     to |-> ns_relative(using_namespace, m.to), message |-> m.message]
ReturnLine(m) ==
    [k |-> "return", from |-> ns_relative(using_namespace, m.to),
     to |-> ns_relative(using_namespace, m.from)]
ActivateLine(m)   == [k |-> "activate", p |-> ns_relative(using_namespace, m.to)]
DeactivateLine(m) == [k |-> "deactivate", p |-> ns_relative(using_namespace, m.to)]

\* generate_call: the line written
generate_call(m) == <<CallLine(m)>>

\* generate_return: the line written, if any
generate_return(m) ==
    IF m.from # m.to /\ m.return_type # "void" THEN <<ReturnLine(m)>> ELSE <<>>

\* m_model.sequences[usr]: std::map::operator[] inserts an empty activity
\* for a key the map has not
WithKey(model, usr) ==
    [sequences |->
        [u \in DOMAIN model.sequences \cup {usr} |->
            IF u \in DOMAIN model.sequences THEN model.sequences[u] ELSE <<>>]]

\* generate(): "@startuml" (m_config.puml.before is empty)
BeginGenerate ==
    /\ pc = "start"
    /\ ostr' = Append(ostr, [k |-> "startuml"])
    /\ pc' = "activity"
    /\ UNCHANGED <<stack, sf, previous, m_model>>
    /\ VisitorIdle

\* generate(): the next start_from entry: generate_activity of
\* m_model.sequences[start_from] for a USR, nothing for any other entry
StartFrom ==
    /\ pc = "activity"
    /\ stack = <<>>
    /\ sf <= Len(m_config.start_from)
    /\ LET entry == m_config.start_from[sf] IN
       IF entry.kind = "usr"
       THEN /\ m_model' = WithKey(m_model, entry.usr)
            /\ stack' = <<ActivityFrame(entry.usr)>>
       ELSE UNCHANGED <<m_model, stack>>
    /\ sf' = sf + 1
    /\ UNCHANGED <<pc, ostr, previous>>
    /\ VisitorIdle

\* generate_activity, one message: the call and the activate line, then
\* generate_activity of the callee when m_model.sequences has it; a call
\* the stack has no room for ends the process
GenerateCall ==
    /\ pc = "activity"
    /\ stack # <<>>
    /\ Top.at = "call"
    /\ Top.i <= Len(MessagesOf(Top))
    /\ LET m == CurrentMessage
           waiting == [stack EXCEPT ![Len(stack)].at = "return"]
       IN  /\ ostr' = ostr \o generate_call(m) \o <<ActivateLine(m)>>
           /\ IF m.to_usr \in DOMAIN m_model.sequences
              THEN IF Len(stack) = StackLimit
                   THEN pc' = "stack_overflow" /\ stack' = waiting
                   ELSE pc' = pc /\ stack' = Append(waiting, ActivityFrame(m.to_usr))
              ELSE pc' = pc /\ stack' = waiting
    /\ UNCHANGED <<sf, previous, m_model>>
    /\ VisitorIdle

\* generate_activity, after the callee's activity: generate_return and the
\* deactivate line, then the next message
GenerateReturn ==
    /\ pc = "activity"
    /\ stack # <<>>
    /\ Top.at = "return"
    /\ LET m == CurrentMessage
       IN  ostr' = ostr \o generate_return(m) \o <<DeactivateLine(m)>>
    /\ stack' = [stack EXCEPT ![Len(stack)] = [@ EXCEPT !.i = @ + 1, !.at = "call"]]
    /\ pc' = pc
    /\ UNCHANGED <<sf, previous, m_model>>
    /\ VisitorIdle

\* generate_activity returns: no message is left
EndActivity ==
    /\ pc = "activity"
    /\ stack # <<>>
    /\ Top.at = "call"
    /\ Top.i > Len(MessagesOf(Top))
    /\ stack' = SubSeq(stack, 1, Len(stack) - 1)
    /\ UNCHANGED <<pc, ostr, sf, previous, m_model>>
    /\ VisitorIdle

\* generate(): "@enduml" (m_config.puml.after is empty)
EndGenerate ==
    /\ pc = "activity"
    /\ stack = <<>>
    /\ sf > Len(m_config.start_from)
    /\ ostr' = Append(ostr, [k |-> "enduml"])
    /\ pc' = "done"
    /\ UNCHANGED <<stack, sf, previous, m_model>>
    /\ VisitorIdle

\* generate() is called again on the same model and configuration
GenerateAgain ==
    /\ pc = "done"
    /\ ~previous.written
    /\ previous' = [written |-> TRUE, lines |-> ostr]
    /\ ostr' = <<>>
    /\ sf' = 1
    /\ pc' = "start"
    /\ UNCHANGED <<stack, m_model>>
    /\ VisitorIdle

NextSequence ==
    \/ BeginGenerate
    \/ StartFrom
    \/ GenerateAgain
    \/ GenerateCall
    \/ GenerateReturn
    \/ EndActivity
    \/ EndGenerate

SpecSequence == InitSequence /\ [][NextSequence]_vars

(***************************************************************************)
(* Properties of the helper functions                                      *)
(***************************************************************************)
\* id * 8 + low modulo 2^64
Times8Plus(id, low) ==
    LET t1 == id[1] * 8 + low
        t2 == id[2] * 8 + (t1 \div 65536)
        t3 == id[3] * 8 + (t2 \div 65536)
        t4 == id[4] * 8 + (t3 \div 65536)
    IN  <<t1 % 65536, t2 % 65536, t3 % 65536, t4 % 65536>>

NoAnonymous(ns) == \A i \in 1..Len(ns) : ns[i].kind # "anonymous"

\* C5: to_id(name) is the 64-bit hash of the name shifted right by 3 bits
\* (the hash is 8 * id plus its three low bits), so it is below 2^61; and
\* the package visitor's to_id of a namespace without anonymous components
\* is common::to_id of its qualified name.
C5_IdFromHash ==
    /\ call.fn = "to_id"
       => /\ Below2Pow61(call.result)
          /\ \E low \in 0..7 : Times8Plus(call.result, low) = H64(call.arg)
    /\ (call.fn = "to_id_ns" /\ NoAnonymous(call.arg))
       => call.result = to_id(getQualifiedNameAsString(call.arg))

\* C5 witness: to_id was given a name whose hash is 2^61 or more.
C5_Witness == call.fn = "to_id" /\ ~Below2Pow61(H64(call.arg))

\* the type under all the wrappers of a type
RECURSIVE Innermost(_)
Innermost(t) == IF t.k \in Wrappers THEN Innermost(t.to) ELSE t

\* the innermost wrapper of a wrapped type
RECURSIVE InnermostWrapper(_)
InnermostWrapper(t) == IF t.to.k \in Wrappers THEN InnermostWrapper(t.to) ELSE t.k

\* the kind the table of relationships gives for a wrapper
TableKind(k) ==
    IF k \in {"pointer", "lvalue_reference"} THEN "association" ELSE "aggregation"

\* C10: whatever the hint, void and void* record nothing, and a pointer,
\* reference or array (nested or not) of an admitted record records one
\* entry for the record's namespace, of kind association when the innermost
\* wrapper is a pointer or lvalue reference and of kind aggregation when it
\* is an rvalue reference or an array.
C10_WrapperKinds ==
    call.fn = "find_relationships"
    => /\ (call.type = Void \/ call.type = Pointer(Void)) => call.result = <<>>
       /\ (/\ call.type.k \in Wrappers
           /\ Innermost(call.type).k = "record"
           /\ RecordAdmitted(call.cfg, Innermost(call.type).ns))
          => call.result =
                << <<to_id_ns(Innermost(call.type).ns),
                     TableKind(InnermostWrapper(call.type))>> >>

\* C10 witness: find_relationships was given two nested wrappers of
\* different kinds around an admitted record, with a hint that is neither.
C10_Witness ==
    /\ call.fn = "find_relationships"
    /\ call.type.k \in Wrappers
    /\ call.type.to.k \in Wrappers
    /\ TableKind(call.type.k) # TableKind(call.type.to.k)
    /\ Innermost(call.type).k = "record"
    /\ RecordAdmitted(call.cfg, Innermost(call.type).ns)
    /\ call.hint = "composition"
    /\ call.result # <<>>

\* what the table of relationships gives for the template arguments args
\* under the hint h: a type argument gives what its type gives under h, a
\* function prototype gives a dependency for each parameter type, any other
\* argument gives nothing
RECURSIVE TableOfType(_, _, _)
RECURSIVE TableOfArguments(_, _, _, _)
TableOfType(cfg, t, h) ==
    CASE t.k \in Wrappers ->
            IF Innermost(t).k = "record" /\ RecordAdmitted(cfg, Innermost(t).ns)
            THEN << <<to_id_ns(Innermost(t).ns), TableKind(InnermostWrapper(t))>> >>
            ELSE <<>>
      [] t.k = "record" ->
            IF RecordAdmitted(cfg, t.ns) THEN << <<to_id_ns(t.ns), h>> >> ELSE <<>>
      [] t.k = "enum" -> << <<Id64(t.id), h>> >>
      [] t.k = "function_proto" ->
            TableOfArguments(cfg, [i \in 1..Len(t.params) |-> TypeArg(t.params[i])],
                             1, "dependency")
      [] t.k = "template_specialization" -> TableOfArguments(cfg, t.args, 1, h)
      [] OTHER -> <<>>

TableOfArguments(cfg, args, i, h) ==
    IF i > Len(args) THEN <<>>
    ELSE (IF args[i].kind = "Type" THEN TableOfType(cfg, args[i].type, h) ELSE <<>>)
            \o TableOfArguments(cfg, args, i + 1, h)

IsSpecialization(t) == t.k \in {"template_specialization", "template_alias"}

\* C11: for a template specialization type, find_relationships records what
\* its type arguments give under the caller's hint, a dependency for each
\* parameter type of a function-prototype argument, nothing for integral,
\* null, nullptr, expression, template and template-expansion arguments,
\* and nothing for the specialization itself.
C11_EveryTypeArgument ==
    (call.fn = "find_relationships" /\ IsSpecialization(call.type))
    => call.result = TableOfArguments(call.cfg, call.type.args, 1, call.hint)

\* what C11 states holds of the specializations of class templates, those
\* that are no alias template specializations
ClassTemplateArguments ==
    (call.fn = "find_relationships" /\ call.type.k = "template_specialization")
    => call.result = TableOfArguments(call.cfg, call.type.args, 1, call.hint)

\* a parameter of the given type with the given nested parameters
Param(type, params) == [type |-> type, params |-> params, moved |-> FALSE]

ParseReturned ==
    call.fn = "parse_unexposed_template_params" /\ call.result # "abort"

\* no parameter of the trees has an empty type or is a moved-from leftover of
\* a sibling
RECURSIVE CleanTrees(_)
CleanTrees(trees) ==
    \A i \in 1..Len(trees) :
        /\ trees[i].type # <<>>
        /\ ~trees[i].moved
        /\ CleanTrees(trees[i].params)

\* argument strings with balanced brackets and no empty argument
WellFormedParamStrings ==
    { <<"A", "<", "B", "<", "C", ",", "D", ">", ",", "E", ">">>,
      <<"A", "<", "B", "<", "C", ">", ">">>,
      <<"A", "<", "B", ",", "C", "<", "D", ">", ">">>,
      <<"A", "<", "B", ",", " ", "C", ">">>,
      <<"A", "<", "A", ">">>, <<"A", ",", "A">> }

\* C12: at depth 0, A<B<C,D>,E> gives one argument A with the two children
\* B and E, B with the children C and D and E with none; and for a well
\* formed argument string no parameter has an empty type or the children of
\* a sibling.
C12_NestedArguments ==
    (ParseReturned /\ call.depth = 0)
    => /\ call.params = <<"A", "<", "B", "<", "C", ",", "D", ">", ",", "E", ">">>
          => call.result =
               << Param(<<"A">>,
                    << Param(<<"B">>, << Param(<<"C">>, <<>>),
                                         Param(<<"D">>, <<>>) >>),
                       Param(<<"E">>, <<>>) >>) >>
       /\ call.params \in WellFormedParamStrings => CleanTrees(call.result)

\* the string with every space between two closing angle brackets removed
RECURSIVE SqueezeClosing(_)
SqueezeClosing(s) ==
    LET pos == Find(s, <<">", " ", ">">>, 1) IN
    IF pos = 0 THEN s
    ELSE SqueezeClosing(SubSeq(s, 1, pos) \o SubSeq(s, pos + 2, Len(s)))

\* C13: a string written with "> >" and the same string written with ">>"
\* give equal trees.
C13_ClosingBracketSpace ==
    (ParseReturned /\ SqueezeClosing(call.params) # call.params)
    => call.result =
         parse_unexposed_template_params(SqueezeClosing(call.params),
                                         call.depth).res

\* the positions of the "<" of s that no ">" closes
Unterminated(s) ==
    {i \in 1..Len(s) : s[i] = "<" /\ BracketMatchEnd(s, i + 1, 0) > Len(s)}

FirstUnterminated(s) == CHOOSE i \in Unterminated(s) : \A j \in Unterminated(s) : i <= j

\* no ">" outside brackets comes before position i of s
RECURSIVE NoClosingBefore(_, _, _, _)
NoClosingBefore(s, i, k, level) ==
    IF k >= i THEN TRUE
    ELSE IF s[k] = "<" THEN NoClosingBefore(s, i, k + 1, level + 1)
    ELSE IF s[k] = ">" THEN level > 0 /\ NoClosingBefore(s, i, k + 1, level - 1)
    ELSE NoClosingBefore(s, i, k + 1, level)

\* the characters of s that are part of a type name
NameCharacters(s) == SelectSeq(s, LAMBDA c : c \notin {"<", ">", ",", " "})

\* the characters of the types of the trees, each tree before its children
RECURSIVE TypesOfTrees(_)
TypesOfTrees(trees) ==
    IF trees = <<>> THEN <<>>
    ELSE NameCharacters(trees[1].type) \o TypesOfTrees(trees[1].params)
            \o TypesOfTrees(Tail(trees))

IsSuffix(suffix, s) ==
    /\ Len(suffix) <= Len(s)
    /\ SubSeq(s, Len(s) - Len(suffix) + 1, Len(s)) = suffix

\* the call returns: every loop iteration moves the cursor forward and every
\* recursive call is given a shorter string (the first part of C17)
ParseTerminates ==
    call.fn = "parse_unexposed_template_params" => ~call.outcome.stuck

\* C17: the parser returns on every input, and for an input with a "<" that
\* nothing closes (and that the loop reaches) the text after that "<" is
\* kept in the parameters returned, not discarded.
C17_UnterminatedBracket ==
    /\ ParseTerminates
    /\ (/\ ParseReturned
        /\ Unterminated(call.params) # {}
        /\ NoClosingBefore(call.params, FirstUnterminated(call.params), 1, 0))
       => IsSuffix(
            NameCharacters(SubSeq(call.params,
                                  FirstUnterminated(call.params) + 1,
                                  Len(call.params))),
            TypesOfTrees(call.result))

\* the text after an unterminated "<" is kept when a type comes before it
UnterminatedAfterType ==
    (/\ ParseReturned
     /\ Unterminated(call.params) # {}
     /\ NoClosingBefore(call.params, FirstUnterminated(call.params), 1, 0)
     /\ FirstUnterminated(call.params) > 1
     /\ call.params[FirstUnterminated(call.params) - 1]
            \notin {"<", ">", ",", " "})
    => IsSuffix(
         NameCharacters(SubSeq(call.params,
                               FirstUnterminated(call.params) + 1,
                               Len(call.params))),
         TypesOfTrees(call.result))

\* get_tag_namespace returns the names of the enclosing namespaces that are
\* neither inline nor anonymous, outermost first (the last part of C8).
GetTagNamespaceIsEnclosing ==
    call.fn = "get_tag_namespace"
    => call.result =
         LET named == {i \in 1..Len(call.ns) : call.ns[i].kind = "named"}
             RECURSIVE pick(_)
             pick(i) == IF i > Len(call.ns) THEN <<>>
                        ELSE IF i \in named THEN <<call.ns[i].name>> \o pick(i + 1)
                        ELSE pick(i + 1)
         IN  pick(1)

(***************************************************************************)
(* Properties of the package visitor                                       *)
(***************************************************************************)
IsNamedNamespace(ns) == ns # GlobalScope /\ ns[Len(ns)].kind = "named"

\* the last step was a visit of a named, non-inline namespace declaration
VisitedNamed == last.op = "VisitNamespaceDecl" /\ IsNamedNamespace(last.ns)

\* the last step ran add_relationships for a declaration of a package of the
\* diagram
AddedRelationships ==
    /\ last.op \in {"VisitFunctionDecl", "VisitCXXRecordDecl"}
    /\ get(packages, CurrentPackageId(last.ctx)) # {}

\* p is the package of namespace ns: it has its id and its name
IsPackageOf(p, ns) ==
    /\ IsNamedNamespace(ns)
    /\ p.id = NamespaceIds[ns]
    /\ p.name = ns[Len(ns)].name

\* C1: no package of the diagram holds a relationship whose destination is
\* the package's own id.
C1_NoSelfEdges ==
    \A p \in packages : \A r \in p.relationships : r.destination # p.id

\* C1 witness: a declaration of a package referred to a type of that same
\* package, and add_relationships ran for it.
C1_Witness ==
    /\ AddedRelationships
    /\ \E i \in 1..Len(last.found) : last.found[i][1] = CurrentPackageId(last.ctx)

\* C2: every relationship stored on a package has as destination the id of
\* a namespace that should_include admits, for every type shape, enum types
\* included.
C2_EndpointsAdmitted ==
    \A p \in packages : \A r \in p.relationships :
        \E ns \in AdmittedNamespaces[config] : NamespaceIds[ns] = r.destination

\* C3: between two different packages there is a dependency edge A->B if
\* and only if a function or record declared directly in A (outside system
\* headers) refers, through its return type, parameters, fields, static
\* fields, bases or friends, to a type declared in B, enum types and
\* templated records included.
C3_EdgeIffReference ==
    \A a \in visited, b \in visited :
        \A pa \in packages : \A pb \in packages \ {pa} :
            (IsPackageOf(pa, a) /\ IsPackageOf(pb, b))
            => ((\E r \in pa.relationships : r.destination = pb.id)
                    <=> <<a, b>> \in refs)

\* C4: every package has the id that to_id gives for its own qualified name
\* (namespace tokens, then name, joined by "::"), and that name has no
\* "(anonymous namespace)" token and no empty token, also for a namespace
\* declared inside anonymous namespaces.
C4_IdOfOwnName ==
    \A p \in packages :
        LET tokens == FullNameTokens(p) IN
        /\ p.id = to_id(Join(tokens))
        /\ \A i \in 1..Len(tokens) :
              tokens[i] # <<>> /\ tokens[i] # AnonymousNamespace

\* C6: when a namespace declaration is visited whose id is already in the
\* diagram, the diagram holds exactly one package of that id, and the
\* deprecated flag and comment of the later declaration are merged into it.
C6_MergedByUnion ==
    (VisitedNamed /\ last.known /\ ~(last.attrs.comment = SkipComment))
    => /\ Cardinality(get(packages, NamespaceIds[last.ns])) = 1
       /\ \A p \in get(packages, NamespaceIds[last.ns]) :
             IsPackageOf(p, last.ns)
             => /\ last.attrs.deprecated => p.deprecated
                /\ last.attrs.comment # <<>> => p.comment # <<>>

\* C7: once two visited namespaces with different qualified names that the
\* filter admits have the same id, processing has ended in a fatal error.
C7_CollisionIsFatal ==
    (\E n1 \in visited, n2 \in visited :
        /\ IsNamedNamespace(n1) /\ IsNamedNamespace(n2)
        /\ NamedTokens(n1) # NamedTokens(n2)
        /\ NamespaceIds[n1] = NamespaceIds[n2]
        /\ should_include_package(config, NewPackage(n1))
        /\ should_include_package(config, NewPackage(n2)))
    => aborted # ""

\* C8: no package is made for an anonymous or inline namespace and no
\* package name or namespace token is "(anonymous namespace)"; and a named,
\* non-inline namespace that the filter admits and whose declaration is not
\* flagged skip is a package of the diagram once it has been visited.
C8_NamespacesArePackages ==
    /\ \A p \in packages : \A i \in 1..Len(FullNameTokens(p)) :
            FullNameTokens(p)[i] # AnonymousNamespace
    /\ \A ns \in visited :
            (isAnonymousNamespace(ns) \/ isInline(ns))
            => ~\E p \in packages : p.id = NamespaceIds[ns]
                                     /\ p.name = getNameAsString(ns[Len(ns)])
    /\ (/\ VisitedNamed
        /\ should_include_package(config, NewPackage(last.ns))
        /\ ~(last.attrs.comment = SkipComment)
        /\ aborted = "")
       => \E p \in packages : IsPackageOf(p, last.ns)

\* C9: every package of the diagram is admitted by the filter and not
\* flagged skip, and a visited namespace that the filter does not admit is
\* no package of the diagram.
C9_OnlyAdmittedPackages ==
    /\ \A p \in packages : should_include_package(config, p) /\ ~skip(p)
    /\ \A ns \in visited :
          (IsNamedNamespace(ns) /\ ~should_include_package(config, NewPackage(ns)))
          => ~\E p \in packages : FullNameTokens(p) = FullNameTokens(NewPackage(ns))

\* C9 witness: a namespace the filter excludes was visited after another one
\* had become a package.
C9_Witness ==
    /\ VisitedNamed
    /\ ~should_include_package(config, NewPackage(last.ns))
    /\ packages # {}


(***************************************************************************)
(* Properties of tokenize_unexposed_template_parameter                     *)
(***************************************************************************)
TokenizeReturned ==
    /\ call.fn = "tokenize_unexposed_template_parameter"
    /\ call.result # "out_of_range"

\* C14: tokenize_unexposed_template_parameter drops the keywords: whatever
\* the input, no token of the result is "class", "typename" or "struct",
\* whether the keyword was a whole word or the end of a word.
C14_KeywordsDropped ==
    TokenizeReturned =>
        \A i \in 1..Len(call.result) :
            call.result[i] \notin {KwClass, KwTypename, KwStruct}

\* what holds of the keywords: "class" is never a token
ClassDropped ==
    TokenizeReturned =>
        \A i \in 1..Len(call.result) : call.result[i] # KwClass

RECURSIVE Concat(_)
Concat(tokens) ==
    IF tokens = <<>> THEN <<>> ELSE Head(tokens) \o Concat(Tail(tokens))

\* the words of the input that are one of the keywords, taken out
RECURSIVE WithoutKeywords(_)
WithoutKeywords(words) ==
    IF words = <<>> THEN <<>>
    ELSE IF Head(words) \in {KwClass, KwTypename, KwStruct}
         THEN WithoutKeywords(Tail(words))
         ELSE <<Head(words)>> \o WithoutKeywords(Tail(words))

\* an input none of whose words ends in a keyword behind other characters
NoKeywordSuffix(t) ==
    \A i \in 1..Len(split(t, <<" ">>)) :
        \A kw \in {KwClass, KwTypename, KwStruct} :
            LET word == split(t, <<" ">>)[i] IN
            ~ (Len(word) > Len(kw) /\ IsSuffix(kw, word))

\* C15: nothing is dropped silently: the tokens of the result, put together,
\* are the input without its spaces and without the keywords dropped.
C15_NothingDropped ==
    (TokenizeReturned /\ NoKeywordSuffix(call.t)) =>
        Concat(call.result) = Concat(WithoutKeywords(split(call.t, <<" ">>)))

\* a word that is an identifier followed by three dots
IsPackWord(word) ==
    /\ Len(word) > 3
    /\ SubSeq(word, Len(word) - 2, Len(word)) = Ellipsis
    /\ \A i \in 1..(Len(word) - 3) : is_identifier_character(word[i])
    /\ isalpha(word[1])

\* C16: a variadic marker attaches to the preceding parameter: the one word
\* "Ts..." is tokenized into "Ts" followed at once by the one token "...".
C16_PackMarker ==
    (TokenizeReturned /\ IsPackWord(call.t)) =>
        call.result = <<SubSeq(call.t, 1, Len(call.t) - 3), Ellipsis>>

C16_Witness ==
    /\ TokenizeReturned
    /\ call.t = <<"T", "s", ".", ".", ".">>
    /\ call.result = << <<"T", "s">>, Ellipsis >>

(***************************************************************************)
(* Properties of split_ns                                                  *)
(***************************************************************************)
\* the part of a name before its first "<", found by position
RECURSIVE BeforeFirstAngle(_)
BeforeFirstAngle(s) ==
    IF s = <<>> \/ Head(s) = "<" THEN <<>>
    ELSE <<Head(s)>> \o BeforeFirstAngle(Tail(s))

\* C18: split_ns of a name drops everything from the first "<" on and splits
\* the rest on "::": name is the last token and ns the tokens before it, so
\* that ns and name joined by "::" are the part of the name before the first
\* "<"; a name of a single token has an empty ns.
C18_SplitNs ==
    call.fn = "split_ns" =>
        LET before == BeforeFirstAngle(call.full_name)
            tokens == split(before, ColonColon)
        IN  /\ call.result.name = tokens[Len(tokens)]
            /\ call.result.ns = SubSeq(tokens, 1, Len(tokens) - 1)
            /\ Join(Append(call.result.ns, call.result.name)) = before
            /\ (Find(before, ColonColon, 1) = 0 => call.result.ns = <<>>)

C18_Witness ==
    /\ call.fn = "split_ns"
    /\ call.full_name = Join(<<nA, nB, nDetail>>)
                            \o <<"<", "a", ":", ":", "T", ",", "U", ">">>
    /\ call.result = [ns |-> <<nA, nB>>, name |-> nDetail]

C18_SingleToken ==
    /\ call.fn = "split_ns"
    /\ call.full_name = <<"a", "<", "T", ">">>
    /\ call.result = [ns |-> <<>>, name |-> nA]

(***************************************************************************)
(* Properties of the sequence diagram generator                            *)
(***************************************************************************)
\* the message the innermost generate_activity has just finished with
Finished == MessagesOf(Top)[Top.i - 1]

JustFinished ==
    /\ pc = "activity"
    /\ stack # <<>>
    /\ Top.at = "call"
    /\ Top.i > 1

\* C19: every call message is paired with a return line written after the
\* callee's activity and right before the message's deactivate line, unless
\* its return_type is void; also when its from is its to.
C19_CallPairedWithReturn ==
    (JustFinished /\ Finished.return_type # "void") =>
        /\ Len(ostr) >= 2
        /\ ostr[Len(ostr) - 1] = ReturnLine(Finished)
        /\ ostr[Len(ostr)] = DeactivateLine(Finished)

\* what holds of the pairing: it holds of the messages between two
\* different participants
ReturnBetweenParticipants ==
    (JustFinished /\ Finished.return_type # "void" /\ Finished.from # Finished.to) =>
        /\ Len(ostr) >= 2
        /\ ostr[Len(ostr) - 1] = ReturnLine(Finished)
        /\ ostr[Len(ostr)] = DeactivateLine(Finished)

\* C20: generate_activity terminates on every model: a callee whose activity
\* is being walked is not walked again, and the walk never runs out of stack.
C20_NoRewalk ==
    /\ pc # "stack_overflow"
    /\ \A i, j \in 1..Len(stack) : stack[i].usr = stack[j].usr => i = j

\* what holds of termination: the walk runs out of stack only with an
\* activity that is on the stack twice or is called from the stack again
OverflowOnlyOnRewalk ==
    pc = "stack_overflow" =>
        \E i \in 1..Len(stack) :
            \/ \E j \in 1..Len(stack) : i # j /\ stack[i].usr = stack[j].usr
            \/ CurrentMessage.to_usr = stack[i].usr
\* generate() has come to the start_from entry sf and goes past it
TakesEntry == pc = "activity" /\ stack = <<>> /\ sf' = sf + 1

\* the root walked for the entry sf: the activity the entry names when the
\* model has one, and otherwise none or one without messages
RootOfEntry ==
    LET entry == m_config.start_from[sf] IN
    IF entry.usr \in Usrs
    THEN stack' = <<ActivityFrame(entry.usr)>>
    ELSE stack' = <<>> \/ m_model'.sequences[stack'[1].usr] = <<>>

\* C21: every start_from entry, be it a fully-qualified name, a USR or a
\* source location, makes the activity it names a root that is walked; an
\* entry that names no activity of the model has no message written.
C21_EveryEntrySelectsRoot == [][TakesEntry => RootOfEntry]_vars

\* what holds of the entries: it holds of those that are a USR
UsrEntrySelectsRoot ==
    [][(TakesEntry /\ m_config.start_from[sf].kind = "usr") => RootOfEntry]_vars

\* the lines without the return lines
RECURSIVE WithoutReturns(_)
WithoutReturns(lines) ==
    IF lines = <<>> THEN <<>>
    ELSE IF Head(lines).k = "return" THEN WithoutReturns(Tail(lines))
    ELSE <<Head(lines)>> \o WithoutReturns(Tail(lines))

\* the calls of an activity in stored order, each followed by its activate
\* line, the calls of the callee's activity and its deactivate line; depth
\* is the number of activities that may still be entered
RECURSIVE NestedCalls(_, _, _)
NestedCalls(usr, from, depth) ==
    LET messages == m_model.sequences[usr] IN
    IF depth = 0 \/ from > Len(messages) THEN <<>>
    ELSE LET m == messages[from] IN
         <<CallLine(m), ActivateLine(m)>>
            \o (IF m.to_usr \in DOMAIN m_model.sequences
                THEN NestedCalls(m.to_usr, 1, depth - 1) ELSE <<>>)
            \o <<DeactivateLine(m)>>
            \o NestedCalls(usr, from + 1, depth)

\* the calls of the entry points, in start_from order
RECURSIVE EntryPointCalls(_)
EntryPointCalls(n) ==
    IF n > Len(m_config.start_from) THEN <<>>
    ELSE LET entry == m_config.start_from[n] IN
         (IF entry.kind = "usr" /\ entry.usr \in DOMAIN m_model.sequences
          THEN NestedCalls(entry.usr, 1, StackLimit + 1) ELSE <<>>)
            \o EntryPointCalls(n + 1)

\* every deactivate line closes the participant activated last, and none
\* is left active
RECURSIVE WellNested(_, _)
WellNested(lines, active) ==
    IF lines = <<>> THEN active = <<>>
    ELSE IF Head(lines).k = "activate"
         THEN WellNested(Tail(lines), Append(active, Head(lines).p))
    ELSE IF Head(lines).k = "deactivate"
         THEN /\ active # <<>>
              /\ active[Len(active)] = Head(lines).p
              /\ WellNested(Tail(lines), SubSeq(active, 1, Len(active) - 1))
    ELSE WellNested(Tail(lines), active)

OutputWellFormed ==
    /\ ostr # <<>>
    /\ ostr[1] = [k |-> "startuml"]
    /\ ostr[Len(ostr)] = [k |-> "enduml"]
    /\ WithoutReturns(ostr)
          = <<[k |-> "startuml"]>> \o EntryPointCalls(1) \o <<[k |-> "enduml"]>>
    /\ WellNested(ostr, <<>>)

\* C22: what generate() has written when it stops starts with @startuml and
\* ends with @enduml; between them are the entry points in start_from order,
\* the messages of each in stored order with the callee's messages nested
\* between a call and its return, and every activate line has its deactivate
\* line later, the pairs properly nested.
C22_OutputWellFormed ==
    pc \in {"done", "stack_overflow"} => OutputWellFormed

\* what holds of the output: it is well formed whenever generate() returns
ReturnedOutputWellFormed ==
    pc = "done" => OutputWellFormed

\* C30: generate() is a pure function of the model and the configuration:
\* the keys of sequences are after it what they were before it, also when a
\* start_from USR is no key, and a second generate() on the same model and
\* configuration writes what the first wrote.
C30_GenerateIsPure ==
    pc # "idle" =>
        /\ DOMAIN m_model.sequences = Usrs
        /\ (pc = "done" /\ previous.written) => ostr = previous.lines

\* what holds of it: the second output is the first
SameOutputAgain ==
    (pc = "done" /\ previous.written) => ostr = previous.lines

SecondOutputWritten ==
    /\ pc = "done"
    /\ previous.written
    /\ Len(ostr) > 2
    /\ DOMAIN m_model.sequences # Usrs

(***************************************************************************)
(* The assertions of the package visitor                                   *)
(***************************************************************************)
\* C29: the assertions of the package visitor hold in every reachable state:
\* current_package_id != 0 for every function or record visited outside the
\* system headers, those at global scope included, and p->id() > 0 for
\* every named namespace visited.
C29_AssertionsHold ==
    /\ aborted = ""
    /\ last.op \in {"VisitFunctionDecl", "VisitCXXRecordDecl"}
          => CurrentPackageId(last.ctx) # Zero64
    /\ (last.op = "VisitNamespaceDecl"
            /\ ~isAnonymousNamespace(last.ns) /\ ~isInline(last.ns))
          => NamespaceIds[last.ns] # Zero64

\* what holds of them: p->id() > 0 never fails, and current_package_id != 0
\* holds of every declaration enclosed by a namespace
AssertionsInsideNamespaces ==
    /\ aborted # "p->id() > 0"
    /\ (last.op \in {"VisitFunctionDecl", "VisitCXXRecordDecl"}
            /\ last.ctx # GlobalScope)
          => CurrentPackageId(last.ctx) # Zero64
    /\ (last.op = "VisitNamespaceDecl"
            /\ ~isAnonymousNamespace(last.ns) /\ ~isInline(last.ns))
          => NamespaceIds[last.ns] # Zero64

(***************************************************************************)
(* Properties of cli_handler                                               *)
(***************************************************************************)
\* C24: the log level after parse and setup_logging: info without -v, debug
\* with -v, trace with -vv or more; error with -q, --dump-config,
\* --print-from, --print-to, or --progress and the text logger, whatever the
\* number of -v flags.
C24_LogLevel ==
    call.fn = "setup_logging" =>
        LET opts == call.opts IN
        IF opts.quiet \/ opts.dump_config \/ opts.print_from \/ opts.print_to
              \/ (opts.progress /\ opts.logger_type = "text")
        THEN call.result = "err"
        ELSE /\ opts.verbose = 0 => call.result = "info"
             /\ opts.verbose = 1 => call.result = "debug"
             /\ opts.verbose >= 2 => call.result = "trace"

C24_Witness ==
    /\ call.fn = "setup_logging"
    /\ call.opts.verbose = 3
    /\ call.opts.progress /\ call.opts.logger_type = "json"
    /\ ~call.opts.quiet /\ ~call.opts.dump_config
    /\ ~call.opts.print_from /\ ~call.opts.print_to
    /\ call.result = "trace"

\* the value a path of keys leads to, or "absent"
RECURSIVE ValueAt(_, _, _)
ValueAt(node, path, i) ==
    IF i > Len(path) THEN node
    ELSE IF node.t = "object" /\ path[i] \in DOMAIN node.m
         THEN ValueAt(node.m[path[i]], path, i + 1)
    ELSE [t |-> "absent"]

\* some value on the first n keys of the path is there and is neither an
\* object nor empty
Blocked(node, path, n) ==
    \E k \in 0..n :
        LET v == ValueAt(node, SubSeq(path, 1, k), 1) IN
        v.t # "absent" /\ ~is_object(v) /\ ~empty(v)

OneUserData ==
    /\ call.fn = "add_custom_user_data"
    /\ Len(call.user_data) = 1

\* C23: add_custom_user_data splits the key on "." and stores the value at
\* that path of objects; when a step of the path, or the final assignment,
\* meets a value that is neither an object nor empty, it returns kError and
\* that value is not overwritten.
C23_UserDataStored ==
    OneUserData =>
        LET path == split(call.user_data[1][1], <<".">>)
            value == JsonString(call.user_data[1][2])
        IN  IF Blocked(call.config_user_data, path, Len(path))
            THEN /\ call.result.res = "kError"
                 /\ call.result.user_data = call.config_user_data
            ELSE /\ call.result.res = "kContinue"
                 /\ ValueAt(call.result.user_data, path, 1) = value

\* what holds of it: the steps of the path are guarded, the final
\* assignment is not, and no array lies on the path
StepsGuarded ==
    OneUserData =>
        LET path == split(call.user_data[1][1], <<".">>)
            value == JsonString(call.user_data[1][2])
        IN  IF Blocked(call.config_user_data, path, Len(path) - 1)
            THEN /\ call.result.res = "kError"
                 /\ call.result.user_data = call.config_user_data
            ELSE \/ /\ call.result.res = "kContinue"
                    /\ ValueAt(call.result.user_data, path, 1) = value
                 \/ call.result.res = "type_error"

\* the options that add to the configuration file
AddsToConfigFile(opts) ==
    \/ opts.initialize
    \/ opts.add_diagram_from_template.has_value
    \/ opts.add_class_diagram.has_value
    \/ opts.add_sequence_diagram.has_value
    \/ opts.add_package_diagram.has_value
    \/ opts.add_include_diagram.has_value

Refused(opts) ==
    \/ opts.config_path = "-" /\ AddsToConfigFile(opts)
    \/ (opts.print_from \/ opts.print_to) /\ Len(opts.diagram_names) # 1

\* C25: handle_pre_config_options returns kError, with no file created or
\* modified and before a configuration is loaded, when the configuration
\* comes from stdin and an option adds to the configuration file, and when
\* --print-from or --print-to comes with other than one diagram name; only
\* --version goes before these checks.
C25_PreConfigErrors ==
    call.fn = "handle_options" =>
        /\ (Refused(call.opts) /\ ~call.opts.show_version)
              => /\ call.result.res = "kError"
                 /\ call.result.file = call.file
                 /\ ~call.result.loaded
        /\ call.opts.show_version
              => /\ call.result.res = "kExit"
                 /\ call.result.file = call.file
                 /\ ~call.result.loaded

C25_Witness ==
    /\ call.fn = "handle_options"
    /\ ~call.opts.show_version
    /\ call.opts.initialize
    /\ ~call.file.exists
    /\ call.opts.print_to /\ Len(call.opts.diagram_names) = 2
    /\ call.opts.config_path # "-"
    /\ call.result.res = "kError"
    /\ ~call.result.file.exists

\* C26: the writers of the configuration file overwrite nothing on error:
\* create_config_file returns kError and leaves an existing file as it is;
\* add_config_diagram returns kError and leaves the file as it is when there
\* is no file or it has a diagram of the name; otherwise it returns kExit and
\* the file has every diagram it had and one more, of the name and the type
\* asked for.
C26_WritersKeepContent ==
    /\ call.fn = "create_config_file" =>
          (call.file.exists =>
              call.result.res = "kError" /\ call.result.file = call.file)
    /\ call.fn = "add_config_diagram" =>
          IF ~call.file.exists \/ call.name \in DOMAIN call.file.diagrams
          THEN call.result.res = "kError" /\ call.result.file = call.file
          ELSE /\ call.result.res = "kExit"
               /\ DOMAIN call.result.file.diagrams
                      = DOMAIN call.file.diagrams \cup {call.name}
               /\ \A n \in DOMAIN call.file.diagrams :
                      call.result.file.diagrams[n] = call.file.diagrams[n]
               /\ call.result.file.diagrams[call.name] = TypeName(call.type)

C26_Witness ==
    /\ call.fn = "add_config_diagram"
    /\ call.file.exists
    /\ DOMAIN call.file.diagrams = {"d1", "d2"}
    /\ call.name = "d3"
    /\ call.type = "kPackage"
    /\ call.result.res = "kExit"
    /\ DOMAIN call.result.file.diagrams = {"d1", "d2", "d3"}
    /\ call.result.file.diagrams["d3"] = "package"

C26_Refused ==
    /\ call.fn = "add_config_diagram"
    /\ call.file.exists
    /\ DOMAIN call.file.diagrams = {"d1"}
    /\ call.name = "d1"
    /\ call.type = "kPackage"
    /\ call.result.res = "kError"
    /\ call.result.file = call.file

\* C27: with --validate-only, load_config reports the configuration valid and
\* returns kExit only when the schema validation was performed and passed;
\* never with --no-validate; a schema or load error gives kError.
C27_ValidMeansValidated ==
    (call.fn = "handle_options" /\ call.result.loaded /\ call.opts.validate_only) =>
        /\ call.result.out = "valid"
              => /\ ~call.opts.no_validate
                 /\ call.file.exists /\ call.file.fault = "none"
                 /\ call.result.res = "kExit"
        /\ (~call.file.exists \/ call.file.fault = "yaml"
                \/ (call.file.fault = "schema" /\ ~call.opts.no_validate))
              => call.result.res = "kError"

\* what holds of it: when the validation is not switched off, valid is
\* reported of the files without fault and of no other
ValidWhenValidated ==
    (call.fn = "handle_options" /\ call.result.loaded /\ call.opts.validate_only
        /\ ~call.opts.no_validate) =>
        IF call.file.exists /\ call.file.fault = "none"
        THEN call.result.out = "valid" /\ call.result.res = "kExit"
        ELSE call.result.out # "valid" /\ call.result.res = "kError"

\* --generate-from-template is given and handle_post_config_options comes
\* to it
GeneratesFromTemplate ==
    /\ call.fn = "handle_options"
    /\ call.result.loaded
    /\ ~call.opts.validate_only
    /\ ~call.opts.dump_config /\ ~call.opts.list_diagrams
    /\ ~call.opts.list_templates /\ ~call.opts.show_template.has_value
    /\ ~call.opts.add_diagram_from_template.has_value
    /\ call.opts.generate_from_template.has_value

TemplateFails(opts) ==
    \/ opts.generate_from_template.value \notin Templates
    \/ \E i \in 1..Len(opts.template_variables) :
            Len(split(opts.template_variables[i], <<"=">>)) # 2
    \/ Render(opts.generate_from_template.value).error
    \/ ~Render(opts.generate_from_template.value).valid

\* C28: when --generate-from-template names an unknown template, comes with
\* an invalid --template-var or renders to an invalid diagram configuration,
\* handle_post_config_options and handle_options return kError, never
\* kContinue; when it succeeds the diagram is in config.diagrams and its
\* name in diagram_names.
C28_TemplateErrors ==
    GeneratesFromTemplate =>
        IF TemplateFails(call.opts)
        THEN call.result.res = "kError"
        ELSE /\ "generated" \in DOMAIN call.result.config.diagrams
             /\ \E i \in 1..Len(call.result.diagram_names) :
                    call.result.diagram_names[i] = "generated"

\* what holds of it: a template that renders well is added
GeneratedDiagramAdded ==
    (GeneratesFromTemplate /\ ~TemplateFails(call.opts)) =>
        /\ "generated" \in DOMAIN call.result.config.diagrams
        /\ \E i \in 1..Len(call.result.diagram_names) :
               call.result.diagram_names[i] = "generated"

============================================================================
